---- MODULE Spec2Model ----
(***************************************************************************)
(* Model of the rule-based detection engine of ai_cr_tools                 *)
(* (code_smell_detector.py): the line scanner _detect_detailed_issues with *)
(* its ten detector passes, and the decision logic of detect_smells.       *)
(*                                                                         *)
(* A source line is a sequence of tokens (strings).  The text of a line    *)
(* writes no blank before "(", "[", ")", "]", "," and ";", none after "("  *)
(* and "[", none around "->", and one blank between every other pair of    *)
(* tokens; a regular expression of the source is translated to the         *)
(* predicate on token sequences that it decides on that text.  A file is a *)
(* sequence of lines; line numbers are 1-based as CodeIssue.line_number.   *)
(***************************************************************************)
EXTENDS Integers, Sequences, FiniteSets, TLC

VARIABLES
    model,            \* self.model is loaded (not None)
    scaler,           \* self.scaler is loaded
    label_encoder,    \* self.label_encoder is loaded
    hash_seed,        \* the interpreter's string-hash seed (fixed per process)
    phase,            \* "ready" after construction, "scanned", "detected"
    lines,            \* the lines of the file handed to the last call
    failed_step,      \* the step of the scan that raised in the last call
    detailed_issues,  \* the CodeIssue list of the last call
    scan_raised,      \* an exception left _detect_detailed_issues
    features,         \* the CodeFeatures of the last detect_smells call
    prediction,       \* what the installed classifier answered in that call
    smell_type,       \* SmellDetectionResult.smell_type
    confidence,       \* SmellDetectionResult.confidence, a fraction <<n, d>>
    issues,           \* SmellDetectionResult.issues (their types)
    suggestions,      \* SmellDetectionResult.suggestions
    artifacts,        \* the model artifact files that _load_model met
    detailed_analysis,\* FeatureExtractor.detailed_analysis (last file read)
    parse,            \* the last PHPParser.parse_file call
    ratio,            \* the last _calculate_comment_ratio call
    inherit,          \* the running _calculate_inheritance_depth call
    batch             \* the running detect_batch call

vars == <<model, scaler, label_encoder, hash_seed, phase, lines, failed_step,
          detailed_issues, scan_raised, features, prediction, smell_type,
          confidence, issues, suggestions, artifacts, detailed_analysis,
          parse, ratio, inherit, batch>>

(***************************************************************************)
(* Bounds of the model.                                                    *)
(***************************************************************************)
MaxLines == 2      \* free files: at most this many catalogue lines
MaxParams == 6     \* declared parameters of the generated function line
MaxNest == 5       \* nested if blocks of the generated method
MaxBody == 20      \* statement lines of the generated method body
MaxSeed == 1       \* hash seeds 0..MaxSeed
MaxSmells == 1     \* smell indicators set in a profile of the decision runs
MaxDecls == 3      \* declarations of a parsed file
MaxClasses == 2    \* classes of a file whose inheritance depth is computed
MaxDepth == 4      \* the inheritance depth counts up to this value
MaxBatch == 2      \* files handed to one detect_batch call
MaxCount == 11     \* the largest smell count of a profile of the confidence runs
MaxGap == 3        \* statement lines between a query and the logging call
MaxBranches == 10  \* if blocks in the body of a parsed function

(***************************************************************************)
(* Generic helpers on sequences.                                           *)
(***************************************************************************)
RECURSIVE Flatten(_)
Flatten(ss) == IF ss = <<>> THEN <<>> ELSE Head(ss) \o Flatten(Tail(ss))

\* str.count(tok): occurrences of a one-character token in the line
Count(line, tok) == Cardinality({k \in 1..Len(line) : line[k] = tok})

\* some token of the line lies in S (a substring test of the source)
Has(line, S) == \E k \in 1..Len(line) : line[k] \in S

\* a token of A directly followed by a token of B
Adj(line, A, B) == \E k \in 1..(Len(line) - 1) : line[k] \in A /\ line[k + 1] \in B

Min(a, b) == IF a <= b THEN a ELSE b
Max(a, b) == IF a >= b THEN a ELSE b

SelectIssues(seq, sev) == SelectSeq(seq, LAMBDA x : x.severity = sev)

(***************************************************************************)
(* Character classes of the regular expressions, as token classes.         *)
(***************************************************************************)
Punct == {"(", ")", "{", "}", "[", "]", ",", ";", "=", ".", ".=", "?", "->",
          "\"", "'", "//", "/*", "*/", "*", "/", "<", ">", "<=", ">=", "@",
          "${", "'1234'", "#"}
ParamVars == <<"$a", "$b", "$c", "$d", "$e", "$f", "$g", "$h">>
Vars == {ParamVars[k] : k \in 1..Len(ParamVars)} \cup
        {"$x", "$id", "$ids", "$sql", "$db", "$stmt", "$name", "$i",
         "$password", "$_GET", "$_POST", "$_REQUEST", "$_COOKIE", "$GLOBALS",
         "$Total", "$_SESSION", "$_SERVER", "$_FILES", "$_ENV"}
Numbers == {"0", "1", "10"}

IsVar(t) == t \in Vars                                  \* \$\w+
IsWord(t) == t \notin Punct /\ t \notin Vars              \* \w+
IsIdent(t) == IsWord(t) /\ t \notin Numbers               \* [a-zA-Z_][a-zA-Z0-9_]*
WordTokens(line) == {line[k] : k \in {j \in 1..Len(line) : IsWord(line[j])}}

CodeIssue(t, sev, n) == [type |-> t, severity |-> sev, line_number |-> n]

\* The match of the function-declaration pattern of _find_long_methods and
\* _find_long_parameter_lists ("function", a name, "(", no ")" up to a ")"):
\* the position of the leftmost "function" that starts a match, 0 when there
\* is none; the closing parenthesis is the first ")" after the "(".
FuncStarts(line, ident) ==
    {p \in 1..(Len(line) - 3) :
        /\ line[p] = "function"
        /\ (IF ident THEN IsIdent(line[p + 1]) ELSE IsWord(line[p + 1]))
        /\ line[p + 2] = "("
        /\ \E q \in (p + 3)..Len(line) : line[q] = ")"}

\* ident: the name is [a-zA-Z_][a-zA-Z0-9_]* (pass 1); otherwise \w+ (pass 3)
FuncMatch(line, ident) ==
    IF FuncStarts(line, ident) = {} THEN 0
    ELSE CHOOSE p \in FuncStarts(line, ident) :
             \A r \in FuncStarts(line, ident) : p <= r

FirstClose(line, p) ==
    CHOOSE q \in (p + 3)..Len(line) :
        line[q] = ")" /\ \A r \in (p + 3)..(q - 1) : line[r] # ")"

\* group(2): the tokens between the parentheses
ParamsStr(line, p) == SubSeq(line, p + 3, FirstClose(line, p) - 1)

\* [p.strip() for p in params_str.split(',') if p.strip()]: the number of
\* non-empty pieces between commas
RECURSIVE CountPieces(_, _)
CountPieces(toks, open) ==
    IF toks = <<>> THEN (IF open THEN 1 ELSE 0)
    ELSE IF Head(toks) = ","
         THEN (IF open THEN 1 ELSE 0) + CountPieces(Tail(toks), FALSE)
         ELSE CountPieces(Tail(toks), TRUE)

ParamCount(params) == CountPieces(params, FALSE)

(***************************************************************************)
(* Pass 1: _find_long_methods.                                             *)
(***************************************************************************)
LongMethodLines == 20        \* method_length > 20
LongParamsInLongMethods == 4 \* len(param_list) > 4

\* the brace matching loop "for j in range(i, len(lines))": method_end
RECURSIVE MethodEnd(_, _, _, _, _)
MethodEnd(ls, i, j, brace_count, found_start_brace) ==
    IF j > Len(ls) THEN i
    ELSE LET bc == brace_count + Count(ls[j], "{") - Count(ls[j], "}")
             found == found_start_brace \/ bc > 0
         IN IF found /\ bc = 0 THEN j
            ELSE MethodEnd(ls, i, j + 1, bc, found)

LongMethodsAt(ls, i) ==
    LET line == ls[i]
        p == FuncMatch(line, TRUE)
    IN IF p = 0 THEN <<>>
       ELSE LET method_length == MethodEnd(ls, i, i, 0, FALSE) - i + 1
                params == ParamsStr(line, p)
            IN (IF method_length > LongMethodLines
                THEN <<CodeIssue("long_method", "warning", i)>> ELSE <<>>)
               \o
               (IF params # <<>> /\ ParamCount(params) > LongParamsInLongMethods
                THEN <<CodeIssue("long_parameter_list", "warning", i)>>
                ELSE <<>>)

find_long_methods(ls) == Flatten([i \in 1..Len(ls) |-> LongMethodsAt(ls, i)])

(***************************************************************************)
(* Pass 2: _find_complex_methods (nesting depth).                          *)
(***************************************************************************)
MaxNesting == 4              \* max_nesting > 4
ControlWords == {"if", "for", "foreach", "while", "switch"}

\* the threshold test with >= in place of > (variant; not the code's)
TooDeepInclusive(max_nesting) == max_nesting >= MaxNesting

\* max_nesting > 4
TooDeep(max_nesting) == max_nesting > MaxNesting

\* the method-start pattern: "function", a word, "("
MethodStart(line) ==
    \E p \in 1..(Len(line) - 2) :
        line[p] = "function" /\ IsWord(line[p + 1]) /\ line[p + 2] = "("

StartsWithClose(line) == line # <<>> /\ line[1] = "}"

\* the loop over the lines, carrying in_method, method_start, max_nesting
\* and current_nesting
RECURSIVE ComplexScan(_, _, _, _, _, _)
ComplexScan(ls, i, in_method, method_start, max_nesting, current_nesting) ==
    IF i > Len(ls) THEN <<>>
    ELSE
      LET line == ls[i]
          starts == MethodStart(line) /\ ~in_method
          inm == in_method \/ starts
          ms == IF starts THEN i ELSE method_start
          mx0 == IF starts THEN 0 ELSE max_nesting
          cur0 == IF starts THEN 0 ELSE current_nesting
          ctl == inm /\ Has(line, ControlWords)
          cur1 == IF ctl THEN cur0 + 1 ELSE cur0
          mx1 == IF ctl THEN Max(mx0, cur1) ELSE mx0
          cur2 == IF inm /\ StartsWithClose(line) THEN Max(0, cur1 - 1) ELSE cur1
          ends == inm /\ StartsWithClose(line) /\ cur2 = 0
      IN (IF ends /\ TooDeep(mx1)
          THEN <<CodeIssue("complex_method", "error", ms)>> ELSE <<>>)
         \o ComplexScan(ls, i + 1, inm /\ ~ends, ms, mx1, cur2)

find_complex_methods(ls) == ComplexScan(ls, 1, FALSE, 1, 0, 0)

(***************************************************************************)
(* Pass 3: _find_long_parameter_lists.                                     *)
(***************************************************************************)
LongParams == 5              \* param_count > 5

LongParamsAt(ls, i) ==
    LET line == ls[i]
        p == FuncMatch(line, FALSE)
    IN IF p = 0 THEN <<>>
       ELSE LET params == ParamsStr(line, p)
            IN IF params # <<>> /\ ParamCount(params) > LongParams
               THEN <<CodeIssue("long_parameter_list", "warning", i)>>
               ELSE <<>>

find_long_parameter_lists(ls) ==
    Flatten([i \in 1..Len(ls) |-> LongParamsAt(ls, i)])

(***************************************************************************)
(* Pass 4: _find_naming_issues.                                            *)
(***************************************************************************)
\* names matching ^[A-Z][a-zA-Z0-9]*$ and ^[a-z][a-zA-Z0-9]*$ among the
\* words of the catalogue; every other word matches neither
PascalWords == {"Foo", "Exception", "PDO", "SELECT"}
CamelWords == {"foo", "bar", "getName", "save", "t", "id", "note", "as",
               "true", "false", "query", "prepare", "bindParam", "localhost",
               "root", "password", "if", "for", "foreach", "while", "switch",
               "function", "class", "public", "private", "protected", "new",
               "catch", "try", "return", "break", "unset", "mail", "count",
               "fopen", "int"}
DunderWords == {"__construct"}          \* method_name.startswith('__')

\* the leftmost match of "class", a word: the word, or "" when none
ClassName(line) ==
    LET ps == {p \in 1..(Len(line) - 1) : line[p] = "class" /\ IsWord(line[p + 1])}
    IN IF ps = {} THEN ""
       ELSE line[(CHOOSE p \in ps : \A r \in ps : p <= r) + 1]

\* the leftmost match of "function", an identifier: the identifier, or ""
MethodName(line) ==
    LET ps == {p \in 1..(Len(line) - 1) : line[p] = "function" /\ IsIdent(line[p + 1])}
    IN IF ps = {} THEN ""
       ELSE line[(CHOOSE p \in ps : \A r \in ps : p <= r) + 1]

\* group(1) of \$([A-Z_][A-Z0-9_]*) at a variable token: the longest run of
\* capitals, digits and underscores that follows the "$"; "" when no match
UpperPrefix(t) ==
    CASE t = "$_GET" -> "_GET"
      [] t = "$_POST" -> "_POST"
      [] t = "$_REQUEST" -> "_REQUEST"
      [] t = "$_COOKIE" -> "_COOKIE"
      [] t = "$_SESSION" -> "_SESSION"
      [] t = "$_SERVER" -> "_SERVER"
      [] t = "$_FILES" -> "_FILES"
      [] t = "$_ENV" -> "_ENV"
      [] t = "$GLOBALS" -> "GLOBALS"
      [] t = "$Total" -> "T"
      [] OTHER -> ""

SuperGlobals == {"GLOBALS", "POST", "GET", "SESSION", "COOKIE", "SERVER",
                 "FILES", "ENV"}

RECURSIVE VarNamingIssues(_, _)
VarNamingIssues(toks, n) ==
    IF toks = <<>> THEN <<>>
    ELSE (IF UpperPrefix(Head(toks)) # ""
             /\ UpperPrefix(Head(toks)) \notin SuperGlobals
          THEN <<CodeIssue("naming_violation", "info", n)>> ELSE <<>>)
         \o VarNamingIssues(Tail(toks), n)

NamingAt(ls, i) ==
    LET line == ls[i]
        class_name == ClassName(line)
        method_name == MethodName(line)
    IN (IF class_name # "" /\ class_name \notin PascalWords
        THEN <<CodeIssue("naming_violation", "info", i)>> ELSE <<>>)
       \o
       (IF method_name # "" /\ method_name \notin DunderWords
           /\ method_name \notin CamelWords
        THEN <<CodeIssue("naming_violation", "info", i)>> ELSE <<>>)
       \o VarNamingIssues(line, i)

find_naming_issues(ls) == Flatten([i \in 1..Len(ls) |-> NamingAt(ls, i)])

(***************************************************************************)
(* Pass 5: _find_uncommented_methods.                                      *)
(***************************************************************************)
Visibility == {"public", "private", "protected"}
CommentMarks == {"//", "/*", "*/", "*"}     \* tokens containing //, /* or *
CommentLookBack == 3                        \* range(max(0, i - 3), i)

VisibleMethod(line) ==
    \E p \in 1..(Len(line) - 2) :
        line[p] \in Visibility /\ line[p + 1] = "function" /\ IsWord(line[p + 2])

HasCommentBefore(ls, i) ==
    \E j \in Max(1, i - CommentLookBack)..(i - 1) : Has(ls[j], CommentMarks)

UncommentedAt(ls, i) ==
    IF VisibleMethod(ls[i]) /\ ~HasCommentBefore(ls, i)
    THEN <<CodeIssue("missing_documentation", "info", i)>> ELSE <<>>

find_uncommented_methods(ls) ==
    Flatten([i \in 1..Len(ls) |-> UncommentedAt(ls, i)])

(***************************************************************************)
(* Pass 6: _find_sql_injection_risks.                                      *)
(***************************************************************************)
SqlVerbs == {"SELECT", "INSERT", "UPDATE", "DELETE"}
SqlMarkers == {"prepare", "PDO::PARAM", "bindParam", "bindValue", "?"}
\* tokens containing a "$": the variables and the "${" of an interpolation
DollarToks == Vars \cup {"${"}
NumSqlPatterns == 4

\* sql_patterns[k] matches the line: after a verb at v,
\*  1: a variable;  2: a "." directly followed by a "$";
\*  3: a '"', a "$" and a '"' in this order;  4: the same with "'"
Quoted(line, v, q) ==
    \E a \in (v + 1)..Len(line) : \E b \in (a + 1)..Len(line) :
        \E c \in (b + 1)..Len(line) :
            line[a] = q /\ line[b] \in DollarToks /\ line[c] = q

SqlPattern(line, k) ==
    \E v \in 1..Len(line) :
        /\ line[v] \in SqlVerbs
        /\ CASE k = 1 -> \E a \in (v + 1)..Len(line) : IsVar(line[a])
             [] k = 2 -> \E a \in (v + 1)..(Len(line) - 1) :
                             line[a] = "." /\ line[a + 1] \in DollarToks
             [] k = 3 -> Quoted(line, v, "\"")
             [] OTHER -> Quoted(line, v, "'")

\* the pattern loop without its break (variant; not the code's): one issue
\* for every pattern that matches
RECURSIVE SqlPatternLoopNoBreak(_, _, _)
SqlPatternLoopNoBreak(line, n, k) ==
    IF k > NumSqlPatterns THEN <<>>
    ELSE (IF SqlPattern(line, k) /\ ~Has(line, SqlMarkers)
          THEN <<CodeIssue("sql_injection_risk", "error", n)>> ELSE <<>>)
         \o SqlPatternLoopNoBreak(line, n, k + 1)

\* "for pattern in sql_patterns": an issue and a break at the first pattern
\* that matches a line without a prepared-statement marker
RECURSIVE SqlPatternLoop(_, _, _)
SqlPatternLoop(line, n, k) ==
    IF k > NumSqlPatterns THEN <<>>
    ELSE IF SqlPattern(line, k) /\ ~Has(line, SqlMarkers)
         THEN <<CodeIssue("sql_injection_risk", "error", n)>>
         ELSE SqlPatternLoop(line, n, k + 1)

SqlInjectionAt(ls, i) == SqlPatternLoop(ls[i], i, 1)

find_sql_injection_risks(ls) ==
    Flatten([i \in 1..Len(ls) |-> SqlInjectionAt(ls, i)])

(***************************************************************************)
(* Pass 7: _find_security_issues.                                          *)
(***************************************************************************)
UserInputVars == {"$_GET", "$_POST", "$_REQUEST", "$_COOKIE"}
Sanitizers == {"filter_input", "htmlspecialchars", "strip_tags",
               "mysqli_real_escape_string"}
PasswordToks == {"$password", "password", "password_hash"}
HashToks == {"password_hash", "hash", "crypt", "bcrypt"}
EqToks == {"=", ".=", "<=", ">="}            \* tokens containing "="
ErrorToks == {"try", "catch", "error", "error_log"}
IfToks == {"if", "elseif"}                   \* tokens containing "if"
FalseToks == {"false"}
ErrorLookAhead == 3                          \* range(i, min(i + 3, len(lines)))

\* \$.*password from position lo on: the positions where "password" ends
PwEnds(line, lo) ==
    {b \in lo..Len(line) :
        /\ line[b] \in PasswordToks
        /\ \E a \in lo..b : IsVar(line[a]) /\ (a < b \/ line[a] \in PasswordToks)}

PlainPassword(line) ==
    \E b \in PwEnds(line, 1) : \E c \in (b + 1)..Len(line) :
        line[c] \in EqToks /\ PwEnds(line, c + 1) # {}

\* new PDO(...localhost...root...'digits': a quoted run of digits is one
\* token (the pattern allows no blank inside the quotes)
QuotedNumbers == {"'1234'"}
HardcodedPdo(line) ==
    \E p \in 1..(Len(line) - 2) :
        /\ line[p] = "new" /\ line[p + 1] = "PDO" /\ line[p + 2] = "("
        /\ \E a \in (p + 3)..Len(line) : \E b \in (a + 1)..Len(line) :
              \E c \in (b + 1)..Len(line) :
                 /\ line[a] = "localhost" /\ line[b] = "root"
                 /\ line[c] \in QuotedNumbers

\* ->query(  ->exec(  mail(
RiskyCall(line) ==
    \/ \E p \in 1..(Len(line) - 2) :
          line[p] = "->" /\ line[p + 1] \in {"query", "exec"} /\ line[p + 2] = "("
    \/ Adj(line, {"mail"}, {"("})

\* (try|catch|if.*false|error)
ErrorHandling(line) ==
    \/ Has(line, ErrorToks)
    \/ \E a \in 1..Len(line) : \E b \in (a + 1)..Len(line) :
          line[a] \in IfToks /\ line[b] \in FalseToks

HasErrorHandling(ls, i) ==
    \E j \in i..Min(i + ErrorLookAhead - 1, Len(ls)) : ErrorHandling(ls[j])

SecurityAt(ls, i) ==
    LET line == ls[i]
    IN (IF Adj(line, UserInputVars, {"["}) /\ ~Has(line, Sanitizers)
        THEN <<CodeIssue("xss_risk", "error", i)>> ELSE <<>>)
       \o
       (IF PlainPassword(line) /\ ~Has(line, HashToks)
        THEN <<CodeIssue("password_security", "error", i)>> ELSE <<>>)
       \o
       (IF HardcodedPdo(line)
        THEN <<CodeIssue("hardcoded_credentials", "warning", i)>> ELSE <<>>)
       \o
       (IF RiskyCall(line) /\ ~HasErrorHandling(ls, i)
        THEN <<CodeIssue("missing_error_handling", "warning", i)>> ELSE <<>>)

find_security_issues(ls) == Flatten([i \in 1..Len(ls) |-> SecurityAt(ls, i)])

(***************************************************************************)
(* Pass 8: _find_code_quality_issues.                                      *)
(***************************************************************************)
\* tokens containing int, string, bool, array or object
TypeToks == {"int", "string", "bool", "array", "object",
             "mysqli_real_escape_string", "array_key_exists"}
StartsEq == {"="}                            \* tokens starting with "="

ClassDecl(line) == Len(line) >= 2 /\ line[1] = "class" /\ IsWord(line[2])

\* function name(... $var ...) with no ")" before the variable
UntypedCandidate(line) ==
    \E p \in 1..(Len(line) - 3) :
        /\ line[p] = "function" /\ IsWord(line[p + 1]) /\ line[p + 2] = "("
        /\ \E v \in (p + 3)..Len(line) :
              /\ IsVar(line[v])
              /\ \A r \in (p + 3)..v : line[r] # ")"
              /\ \E q \in (v + 1)..Len(line) : line[q] = ")"

\* (int|string|bool|array|object|\w+\s+\$): a type word, or a token ending
\* in a word character followed by a blank and a "$"
TypeDeclared(line) ==
    \/ Has(line, TypeToks)
    \/ \E k \in 1..(Len(line) - 1) :
          line[k] \notin Punct /\ line[k + 1] \in DollarToks

CodeQualityAt(ls, i) ==
    LET line == ls[i]
    IN (IF ClassDecl(line) /\ ~HasCommentBefore(ls, i)
        THEN <<CodeIssue("missing_class_comment", "info", i)>> ELSE <<>>)
       \o
       (IF Adj(line, {"public"}, Vars)
        THEN <<CodeIssue("public_property", "warning", i)>> ELSE <<>>)
       \o
       (IF UntypedCandidate(line) /\ ~TypeDeclared(line)
        THEN <<CodeIssue("missing_type_declaration", "info", i)>> ELSE <<>>)
       \o
       (IF Len(line) >= 2 /\ line[1] = "function" /\ IsWord(line[2])
           /\ ~Has(line, Visibility)
        THEN <<CodeIssue("missing_access_modifier", "warning", i)>> ELSE <<>>)
       \o
       (IF Len(line) >= 2 /\ IsVar(line[1]) /\ line[2] \in StartsEq
        THEN <<CodeIssue("global_variable", "warning", i)>> ELSE <<>>)

find_code_quality_issues(ls) ==
    Flatten([i \in 1..Len(ls) |-> CodeQualityAt(ls, i)])

(***************************************************************************)
(* Pass 9: _find_logic_errors.                                             *)
(***************************************************************************)
InfiniteLoopWindow == 50     \* range(i, min(i + 50, len(lines)))
RecursionWindow == 100       \* range(i, min(i + 100, len(lines)))
MemoryLeakWindow == 20       \* range(i + 1, min(i + 20, len(lines)))
BreakToks == {"break", "return", "exit"}
TermToks == {"if", "elseif", "return", "break"}  \* containing if, return, break
CmpToks == {"<", ">", "<=", ">="}
NoBlankAfter == {"(", "[", ")", "]", ",", ";"}   \* tokens written without a blank before them
FileOps == {"fopen", "file_get_contents", "include", "require"}
FileGuards == {"file_exists", "is_readable", "@"}
SlashEnd == {"/", "//", "*/"}                    \* tokens ending in "/"

\* the brace counter of the look-ahead loops of _find_logic_errors
BraceStep(line, brace_count, found) ==
    IF Has(line, {"{"}) \/ found
    THEN brace_count + Count(line, "{") - Count(line, "}")
    ELSE brace_count

WhileTrue(line) ==
    \E p \in 1..(Len(line) - 3) :
        /\ line[p] = "while" /\ line[p + 1] = "("
        /\ line[p + 2] \in {"true", "1", "TRUE"} /\ line[p + 3] = ")"

\* has_break of the look-ahead from line j
RECURSIVE LoopHasBreak(_, _, _, _, _)
LoopHasBreak(ls, j, last, brace_count, found) ==
    IF j > last THEN FALSE
    ELSE LET f == found \/ Has(ls[j], {"{"})
             bc == BraceStep(ls[j], brace_count, found)
         IN \/ Has(ls[j], BreakToks)
            \/ (~(f /\ bc = 0) /\ LoopHasBreak(ls, j + 1, last, bc, f))

\* for ($v = d; $v < d; )
ForWithoutStep(line) ==
    \E p \in 1..(Len(line) - 10) :
        /\ line[p] = "for" /\ line[p + 1] = "("
        /\ IsVar(line[p + 2]) /\ line[p + 3] = "=" /\ line[p + 4] \in Numbers
        /\ line[p + 5] = ";"
        /\ IsVar(line[p + 6]) /\ line[p + 7] \in CmpToks /\ line[p + 8] \in Numbers
        /\ line[p + 9] = ";" /\ line[p + 10] = ")"

\* the leftmost match of "function", a word: the word, or ""
FunctionName(line) ==
    LET ps == {p \in 1..(Len(line) - 1) : line[p] = "function" /\ IsWord(line[p + 1])}
    IN IF ps = {} THEN ""
       ELSE line[(CHOOSE p \in ps : \A r \in ps : p <= r) + 1]

\* <<has_self_call, has_termination>> of the look-ahead from line j
RECURSIVE RecursionScan(_, _, _, _, _, _)
RecursionScan(ls, name, j, last, brace_count, found) ==
    IF j > last THEN <<FALSE, FALSE>>
    ELSE LET f == found \/ Has(ls[j], {"{"})
             bc == BraceStep(ls[j], brace_count, found)
             self_call == f /\ Adj(ls[j], {name}, {"("})
             term == Has(ls[j], TermToks) \/ Adj(ls[j], Vars, CmpToks)
             rest == IF f /\ bc = 0 THEN <<FALSE, FALSE>>
                     ELSE RecursionScan(ls, name, j + 1, last, bc, f)
         IN <<self_call \/ rest[1], term \/ rest[2]>>

CatchClause(line) ==
    \E p \in 1..(Len(line) - 2) :
        /\ line[p] = "catch" /\ line[p + 1] = "("
        /\ \E q \in (p + 2)..Len(line) : line[q] = ")"

WhileLoop(line) ==
    \E p \in 1..(Len(line) - 2) :
        /\ line[p] = "while" /\ line[p + 1] = "("
        /\ \E q \in (p + 2)..Len(line) : line[q] = ")"

\* 'new ' in line and 'unset' not in line
Allocates(line) ==
    /\ \E p \in 1..(Len(line) - 1) :
          line[p] = "new" /\ line[p + 1] \notin NoBlankAfter
    /\ ~Has(line, {"unset"})

\* the line after the first matching line (variant; not the code's)
LineAfterFirst(hits) ==
    IF hits = {} THEN 0 ELSE (CHOOSE j \in hits : \A r \in hits : j <= r) + 1

\* the first line of lo..hi that satisfies the test of a look-ahead loop
\* (the loop breaks there), 0 when none does
FirstLine(hits) ==
    IF hits = {} THEN 0 ELSE CHOOSE j \in hits : \A r \in hits : j <= r

\* the catch test without the look at the next line (variant; not the code's)
EmptyCatchUnchecked(ls, i) == CatchClause(ls[i]) /\ i + 1 <= Len(ls)

\* a catch clause on line i and line i + 1 is "}" after strip()
EmptyCatch(ls, i) ==
    CatchClause(ls[i]) /\ i + 1 <= Len(ls) /\ ls[i + 1] = <<"}">>

LogicErrorsAt(ls, i) ==
    LET line == ls[i]
        n == Len(ls)
        rec == RecursionScan(ls, FunctionName(line), i,
                             Min(i + RecursionWindow - 1, n), 0, FALSE)
        leak == FirstLine({j \in (i + 1)..Min(i + MemoryLeakWindow - 1, n) :
                              Allocates(ls[j])})
    IN (IF WhileTrue(line)
           /\ ~LoopHasBreak(ls, i, Min(i + InfiniteLoopWindow - 1, n), 0, FALSE)
        THEN <<CodeIssue("infinite_loop_risk", "error", i)>> ELSE <<>>)
       \o
       (IF ForWithoutStep(line)
        THEN <<CodeIssue("infinite_loop_risk", "error", i)>> ELSE <<>>)
       \o
       (IF FunctionName(line) # "" /\ rec[1] /\ ~rec[2]
        THEN <<CodeIssue("infinite_recursion_risk", "error", i)>> ELSE <<>>)
       \o
       (IF EmptyCatch(ls, i)
        THEN <<CodeIssue("empty_catch_block", "error", i)>> ELSE <<>>)
       \o
       (IF WhileLoop(line) /\ leak # 0
        THEN <<CodeIssue("memory_leak_risk", "warning", leak)>> ELSE <<>>)
       \o
       (IF Adj(line, SlashEnd, Vars) /\ ~Has(line, IfToks)
        THEN <<CodeIssue("division_by_zero_risk", "warning", i)>> ELSE <<>>)
       \o
       (IF (\E p \in 1..(Len(line) - 3) :
               IsVar(line[p]) /\ line[p + 1] = "[" /\ IsVar(line[p + 2])
               /\ line[p + 3] = "]")
           /\ ~Has(line, {"isset", "array_key_exists"})
        THEN <<CodeIssue("array_bounds_risk", "warning", i)>> ELSE <<>>)
       \o
       (IF Adj(line, FileOps, {"("}) /\ ~Has(line, FileGuards)
        THEN <<CodeIssue("file_operation_risk", "warning", i)>> ELSE <<>>)

find_logic_errors(ls) == Flatten([i \in 1..Len(ls) |-> LogicErrorsAt(ls, i)])

(***************************************************************************)
(* Pass 10: _find_performance_issues.                                      *)
(***************************************************************************)
QueryWindow == 30            \* range(i + 1, min(i + 30, len(lines)))
ConcatWindow == 20           \* range(i + 1, min(i + 20, len(lines)))
RegexWindow == 20            \* range(i + 1, min(i + 20, len(lines)))
LoopWords == {"for", "while", "foreach"}
MysqlToks == {"mysql_query", "mysqli_query", "mysqli_real_escape_string"}
ForToks == {"for", "foreach"}                \* tokens containing "for"

LoopHeader(line) == Adj(line, LoopWords, {"("})

QueryCall(line) ==
    \/ \E p \in 1..(Len(line) - 2) :
          line[p] = "->" /\ line[p + 1] \in {"query", "prepare"} /\ line[p + 2] = "("
    \/ Has(line, MysqlToks)

CountCall(line) ==
    \E p \in 1..(Len(line) - 3) :
        /\ line[p] = "count" /\ line[p + 1] = "("
        /\ IsVar(line[p + 2]) /\ line[p + 3] = ")"

PerformanceAt(ls, i) ==
    LET line == ls[i]
        n == Len(ls)
        query == FirstLine({j \in (i + 1)..Min(i + QueryWindow - 1, n) :
                               QueryCall(ls[j])})
        concat == FirstLine({j \in (i + 1)..Min(i + ConcatWindow - 1, n) :
                                Adj(ls[j], Vars, {".="})})
        regex == FirstLine({j \in (i + 1)..Min(i + RegexWindow - 1, n) :
                               Adj(ls[j], {"preg_match", "preg_replace"}, {"("})})
    IN (IF LoopHeader(line) /\ query # 0
        THEN <<CodeIssue("query_in_loop", "error", query)>> ELSE <<>>)
       \o
       (IF Adj(line, {"file_get_contents"}, {"("})
        THEN <<CodeIssue("large_file_read_risk", "warning", i)>> ELSE <<>>)
       \o
       (IF LoopHeader(line) /\ concat # 0
        THEN <<CodeIssue("string_concat_in_loop", "warning", concat)>> ELSE <<>>)
       \o
       (IF LoopHeader(line) /\ regex # 0
        THEN <<CodeIssue("regex_compile_in_loop", "info", regex)>> ELSE <<>>)
       \o
       (IF CountCall(line) /\ Has(line, ForToks)
        THEN <<CodeIssue("redundant_function_call", "info", i)>> ELSE <<>>)

find_performance_issues(ls) ==
    Flatten([i \in 1..Len(ls) |-> PerformanceAt(ls, i)])

(***************************************************************************)
(* _detect_detailed_issues: the file is read and the ten passes run in a   *)
(* fixed order inside one try block; each pass's list is appended when the *)
(* pass returns.  Step 0 is open/readlines, step k the k-th pass; the step *)
(* that raises an Exception ends the scan, NoFailure when none raises.     *)
(***************************************************************************)
NumPasses == 10
NoFailure == NumPasses + 1
FailureSteps == 0..NoFailure

PassIssues(k, ls) ==
    CASE k = 1 -> find_long_methods(ls)
      [] k = 2 -> find_complex_methods(ls)
      [] k = 3 -> find_long_parameter_lists(ls)
      [] k = 4 -> find_naming_issues(ls)
      [] k = 5 -> find_uncommented_methods(ls)
      [] k = 6 -> find_sql_injection_risks(ls)
      [] k = 7 -> find_security_issues(ls)
      [] k = 8 -> find_code_quality_issues(ls)
      [] k = 9 -> find_logic_errors(ls)
      [] OTHER -> find_performance_issues(ls)

\* the steps inside "try: ... except Exception"
TrySteps == 0..NumPasses

\* the issues appended by the passes first..last
RECURSIVE PassesFrom(_, _, _)
PassesFrom(ls, first, last) ==
    IF first > last THEN <<>>
    ELSE PassIssues(first, ls) \o PassesFrom(ls, first + 1, last)

\* a handler that returns an empty list after a failure (variant; not the
\* code's)
detect_detailed_issues_discarding(ls, fail) ==
    [issues |-> IF fail = NoFailure THEN PassesFrom(ls, 1, NumPasses) ELSE <<>>,
     raised |-> FALSE]

\* what the caller gets: the list, and whether the exception escaped
detect_detailed_issues(ls, fail) ==
    [issues |-> PassesFrom(ls, 1, Min(fail - 1, NumPasses)),
     raised |-> fail # NoFailure /\ fail \notin TrySteps]

(***************************************************************************)
(* The files of the model.                                                 *)
(***************************************************************************)
CloseLine == <<"}">>
IfLine == <<"if", "(", "$x", ")", "{">>
StmtLine == <<"$x", "=", "1", ";">>
CatchLine == <<"}", "catch", "(", "Exception", "$e", ")", "{">>
LogLine == <<"error_log", "(", "$e", ")", ";">>
SqlConcatLine == <<"$sql", "=", "\"", "SELECT", "*", "FROM", "t", "WHERE", "id",
                   "=", "\"", ".", "$id", ";">>
SqlInterpLine == <<"$sql", "=", "\"", "SELECT", "*", "FROM", "t", "WHERE", "id",
                   "=", "$id", "\"", ";">>
SqlSingleLine == <<"$sql", "=", "'", "SELECT", "*", "FROM", "t", "WHERE", "id",
                   "=", "${", "id", "}", "'", ";">>
SqlBraceLine == <<"$sql", "=", "\"", "DELETE", "FROM", "t", "WHERE", "id", "=",
                  "\"", ".", "${", "id", "}", ";">>
ForeachLine == <<"foreach", "(", "$ids", "as", "$id", ")", "{">>
QueryLine == <<"$db", "->", "query", "(", "$sql", ")", ";">>
WhileTrueLine == <<"while", "(", "true", ")", "{">>
PropertyLine == <<"public", "$name", ";">>
CommentLine == <<"//", "note">>
MethodLine == <<"public", "function", "getName", "(", ")", "{">>
InputLine == <<"echo", "$_GET", "[", "'", "id", "'", "]", ";">>
ReturnLine == <<"return", "$x", ";">>
SqlDollarLine == <<"$sql", "=", "\"", "SELECT", "*", "FROM", "t", "WHERE", "id",
                   "=", "${", "id", "}", "\"", ";">>

Catalogue == {CloseLine, CatchLine, LogLine, SqlConcatLine, ForeachLine,
              QueryLine, WhileTrueLine, PropertyLine, CommentLine, MethodLine}

RECURSIVE SeqsUpTo(_, _)
SeqsUpTo(S, n) ==
    IF n = 0 THEN {<<>>}
    ELSE LET shorter == SeqsUpTo(S, n - 1)
         IN shorter \cup {Append(f, l) : f \in shorter, l \in S}

RECURSIVE Repeat(_, _)
Repeat(line, n) == IF n = 0 THEN <<>> ELSE <<line>> \o Repeat(line, n - 1)

\* $a, $b, ... : k parameters separated by commas
RECURSIVE ParamList(_)
ParamList(k) ==
    IF k = 0 THEN <<>>
    ELSE IF k = 1 THEN <<ParamVars[1]>>
    ELSE ParamList(k - 1) \o <<",", ParamVars[k]>>

\* function foo($a, ..., $k) {
FuncLine(k) == <<"function", "foo", "(">> \o ParamList(k) \o <<")", "{">>

\* a function declared on one line with k parameters and an empty body
ParamFile(k) == <<FuncLine(k), CloseLine>>

\* a method whose body is n if blocks nested one inside the other
NestFile(n) ==
    <<MethodLine>> \o Repeat(IfLine, n) \o Repeat(CloseLine, n) \o <<CloseLine>>

\* a method of b statement lines
BodyFile(b) == <<MethodLine>> \o Repeat(StmtLine, b) \o <<CloseLine>>

\* a function of k parameters, b statement lines and a return
LongFuncFile(k, b) ==
    <<FuncLine(k)>> \o Repeat(StmtLine, b) \o <<ReturnLine, CloseLine>>

\* a line with a prepared-statement marker written after it
SqlLines == {SqlConcatLine, SqlInterpLine, SqlSingleLine, SqlBraceLine,
             SqlDollarLine}
SqlFiles == {<<l>> : l \in SqlLines} \cup
            {<<l \o <<m>> >> : l \in SqlLines, m \in SqlMarkers} \cup
            {<<InputLine>>}

\* a declaration whose "(" is on the declaration line and whose k parameters
\* and ")" are on the next line
SplitParamFile(k) ==
    <<<<"function", "foo", "(">>, ParamList(k) \o <<")", "{">>,
      ReturnLine, CloseLine>>

\* a method whose body is one if block, closed, and then n if blocks nested
\* one inside the other
LateNestFile(n) ==
    <<MethodLine, IfLine, CloseLine>>
    \o Repeat(IfLine, n) \o Repeat(CloseLine, n) \o <<CloseLine>>

\* a loop with an empty body and a call after its closing brace
AfterLoopFiles ==
    {<<h, CloseLine, c>> :
        h \in {ForeachLine, <<"while", "(", "$x", ")", "{">>},
        c \in {QueryLine, <<"$x", ".=", "$id", ";">>,
               <<"preg_match", "(", "$x", ",", "$id", ")", ";">>,
               <<"$x", "=", "new", "Foo", "(", ")", ";">>}}

\* a query, d statements and a logging call
LateCheckFile(d) == <<QueryLine>> \o Repeat(StmtLine, d) \o <<LogLine>>

\* a declaration without a body, followed by a function of MaxBody statements
BodilessLine == <<"function", "foo", "(", ")", ";">>
BodilessFile == <<BodilessLine>> \o LongFuncFile(0, MaxBody)

\* a function whose opening brace is never closed
UnclosedFile == <<FuncLine(0)>> \o Repeat(StmtLine, MaxBody) \o <<ReturnLine>>

\* reads of the request and environment arrays
SuperGlobalVars == {"$_GET", "$_POST", "$_SESSION", "$_COOKIE", "$_SERVER",
                    "$_FILES", "$_ENV", "$GLOBALS"}
SuperGlobalLine(v) == <<"echo", v, "[", "'", "id", "'", "]", ";">>

Files ==
    SeqsUpTo(Catalogue, MaxLines)
    \cup {ParamFile(k) : k \in 0..MaxParams}
    \cup {NestFile(n) : n \in 0..MaxNest}
    \cup {BodyFile(b) : b \in 0..MaxBody}
    \cup {LongFuncFile(k, MaxBody) : k \in {0, MaxParams}}
    \cup SqlFiles
    \cup {SplitParamFile(k) : k \in 0..MaxParams}
    \cup {LateNestFile(n) : n \in 0..MaxNest}
    \cup AfterLoopFiles
    \cup {LateCheckFile(d) : d \in 0..MaxGap}
    \cup {BodilessFile, UnclosedFile}
    \cup {<<SuperGlobalLine(v)>> : v \in SuperGlobalVars}

(***************************************************************************)
(* Fractions <<numerator, denominator>> stand for the float scores.        *)
(***************************************************************************)
FracLeq(a, b) == a[1] * b[2] <= b[1] * a[2]
FracEq(a, b) == a[1] * b[2] = b[1] * a[2]
FracMin(a, b) == IF FracLeq(a, b) THEN a ELSE b      \* min(a, b) (variant)
FracMax(a, b) == IF FracLeq(b, a) THEN a ELSE b      \* max(a, b)
\* count / per (variant: no cap)
Uncapped(count, per) == <<count, per>>
\* min(count / per, 1.0)
Capped(count, per) == IF count >= per THEN <<1, 1>> ELSE <<count, per>>

RuleConfidence == <<95, 100>>       \* confidence = 0.95
WarningConfidence == <<75, 100>>    \* max(0.75, confidence)
CleanConfidence == <<8, 10>>        \* return 'clean', 0.8

(***************************************************************************)
(* _determine_critical_smell_type and _determine_warning_smell_type: the   *)
(* substring tests on the issue types, over the types the passes produce.  *)
(***************************************************************************)
\* 'sql_injection' in t or 'xss' in t or 'security' in t
SecurityTypes == {"sql_injection_risk", "xss_risk", "password_security"}
\* 'infinite' in t or 'loop' in t
LoopTypes == {"infinite_loop_risk", "infinite_recursion_risk", "query_in_loop",
              "string_concat_in_loop", "regex_compile_in_loop"}
\* 'empty_catch' in t
EmptyCatchTypes == {"empty_catch_block"}
\* 'performance' in t or 'query_in_loop' in t
PerformanceTypes == {"query_in_loop"}

TypesOf(seq) == {seq[k].type : k \in 1..Len(seq)}

determine_critical_smell_type(critical_issues) ==
    LET issue_types == TypesOf(critical_issues)
    IN IF issue_types \cap SecurityTypes # {} THEN "security_issues"
       ELSE IF issue_types \cap LoopTypes # {} THEN "logic_errors"
       ELSE IF issue_types \cap EmptyCatchTypes # {} THEN "error_handling_issues"
       ELSE IF issue_types \cap PerformanceTypes # {} THEN "performance_issues"
       ELSE "critical_issues"

\* 'missing_comment' in t: no type of the passes contains it
\* (missing_class_comment and missing_documentation do not)
MissingCommentTypes == {}

determine_warning_smell_type(warning_issues) ==
    LET issue_types == TypesOf(warning_issues)
    IN IF "long_method" \in issue_types THEN "long_method"
       ELSE IF "long_parameter_list" \in issue_types THEN "long_parameter_list"
       ELSE IF "naming_violation" \in issue_types THEN "naming_issues"
       ELSE IF issue_types \cap MissingCommentTypes # {} THEN "low_cohesion"
       ELSE "code_quality_issues"

(***************************************************************************)
(* _predict_with_rules: the scores in the insertion order of smell_scores; *)
(* max() keeps the first of equal scores.                                  *)
(***************************************************************************)
\* comment_ratio < 0.1, with comment_ratio = comment_lines / total_lines
LowComments(ft) == 10 * ft.comment_lines < ft.total_lines

smell_scores(ft) ==
    (IF ft.long_method_count > 0
     THEN <<[smell |-> "long_method", score |-> Capped(ft.long_method_count, 5)]>>
     ELSE <<>>)
    \o (IF ft.complex_method_count > 0
        THEN <<[smell |-> "complex_method",
                score |-> Capped(ft.complex_method_count, 3)]>>
        ELSE <<>>)
    \o (IF ft.large_parameter_list_count > 0
        THEN <<[smell |-> "long_parameter_list",
                score |-> Capped(ft.large_parameter_list_count, 3)]>>
        ELSE <<>>)
    \o (IF ft.naming_convention_violations > 0
        THEN <<[smell |-> "naming_issues",
                score |-> Capped(ft.naming_convention_violations, 10)]>>
        ELSE <<>>)
    \o (IF ft.long_class_count > 0
        THEN <<[smell |-> "large_class", score |-> Capped(ft.long_class_count, 2)]>>
        ELSE <<>>)
    \o (IF LowComments(ft)
        \* (0.1 - comment_ratio) / 0.1
        THEN <<[smell |-> "low_comment_ratio",
                score |-> <<ft.total_lines - 10 * ft.comment_lines, ft.total_lines>>]>>
        ELSE <<>>)

\* max(items, key=score): the first item no other item beats
RECURSIVE BestOf(_, _)
BestOf(items, best) ==
    IF items = <<>> THEN best
    ELSE BestOf(Tail(items),
                IF FracLeq(Head(items).score, best.score) THEN best ELSE Head(items))

predict_with_rules(ft) ==
    LET scores == smell_scores(ft)
    IN IF scores = <<>> THEN [label |-> "clean", confidence |-> CleanConfidence]
       ELSE LET best == BestOf(Tail(scores), Head(scores))
            IN [label |-> best.smell, confidence |-> best.score]

\* _predict_with_model: the model's answer, or the rules when it raises
predict_with_model(ft, pred) ==
    IF pred.raises THEN predict_with_rules(ft)
    ELSE [label |-> pred.label, confidence |-> pred.confidence]

(***************************************************************************)
(* _detect_specific_issues: the types of the feature-level issues, in the  *)
(* order they are appended.                                                *)
(***************************************************************************)
HighComplexity == 20         \* cyclomatic_complexity > 20

detect_specific_issues(ft) ==
    (IF ft.long_method_count > 0 THEN <<"long_method">> ELSE <<>>)
    \o (IF ft.complex_method_count > 0 THEN <<"complex_method">> ELSE <<>>)
    \o (IF ft.large_parameter_list_count > 0 THEN <<"long_parameter_list">> ELSE <<>>)
    \o (IF ft.naming_convention_violations > 0 THEN <<"naming_issues">> ELSE <<>>)
    \o (IF ft.long_class_count > 0 THEN <<"large_class">> ELSE <<>>)
    \o (IF LowComments(ft) THEN <<"low_comment_ratio">> ELSE <<>>)
    \o (IF ft.cyclomatic_complexity > HighComplexity
        THEN <<"high_complexity">> ELSE <<>>)

(***************************************************************************)
(* _generate_suggestions.  A suggestion text is named by its table and     *)
(* key: "rule:<type>" is smell_rules[type]['suggestion'], "tip<k>:<label>" *)
(* the k-th entry of general_suggestions[label]; the 21 texts differ.      *)
(***************************************************************************)
SmellRuleTypes == {"long_method", "large_class", "long_parameter_list",
                   "complex_method", "naming_issues", "low_comment_ratio"}
GeneralLabels == {"long_method", "complex_method", "long_parameter_list",
                  "large_class", "naming_issues"}
MaxSuggestions == 5          \* [:5]

RuleSuggestion(t) == <<"rule", t>>
general_suggestions(label) ==
    IF label \in GeneralLabels
    THEN <<<<"tip1", label>>, <<"tip2", label>>, <<"tip3", label>>>>
    ELSE <<>>

\* the list before "list(set(suggestions))[:5]"
collected_suggestions(iss, label) ==
    LET ruled == SelectSeq(iss, LAMBDA t : t \in SmellRuleTypes)
    IN [k \in 1..Len(ruled) |-> RuleSuggestion(ruled[k])] \o general_suggestions(label)

\* The iteration order of a set of strings depends on the process's hash
\* seed.  Slot(x, seed) is the place of x in the order of that process:
\* seed 0 gives the order of the tables (first occurrence), every other seed
\* a permutation of it.
Texts == <<<<"rule", "long_method">>, <<"rule", "complex_method">>,
           <<"rule", "long_parameter_list">>, <<"rule", "naming_issues">>,
           <<"rule", "large_class">>, <<"rule", "low_comment_ratio">>,
           <<"tip1", "long_method">>, <<"tip2", "long_method">>,
           <<"tip3", "long_method">>, <<"tip1", "complex_method">>,
           <<"tip2", "complex_method">>, <<"tip3", "complex_method">>,
           <<"tip1", "long_parameter_list">>, <<"tip2", "long_parameter_list">>,
           <<"tip3", "long_parameter_list">>, <<"tip1", "large_class">>,
           <<"tip2", "large_class">>, <<"tip3", "large_class">>,
           <<"tip1", "naming_issues">>, <<"tip2", "naming_issues">>,
           <<"tip3", "naming_issues">>>>
Rank(x) == CHOOSE k \in 1..Len(Texts) : Texts[k] = x
Slot(x, seed) == (Rank(x) * (seed + 1) * (2 * seed + 1)) % 23

\* list(set(xs)): the distinct elements in the order of their slots
RECURSIVE SetToList(_, _)
SetToList(S, seed) ==
    IF S = {} THEN <<>>
    ELSE LET x == CHOOSE y \in S : \A z \in S : Slot(y, seed) <= Slot(z, seed)
         IN <<x>> \o SetToList(S \ {x}, seed)

\* the list without the cut "[:5]" (variant; not the code's)
generate_suggestions_uncapped(iss, label, seed) ==
    LET all == collected_suggestions(iss, label)
    IN SetToList({all[k] : k \in 1..Len(all)}, seed)

generate_suggestions(iss, label, seed) ==
    LET all == collected_suggestions(iss, label)
        listed == SetToList({all[k] : k \in 1..Len(all)}, seed)
    IN SubSeq(listed, 1, Min(MaxSuggestions, Len(listed)))

(***************************************************************************)
(* detect_smells, after the existence check and the feature extraction.    *)
(***************************************************************************)
\* the decision with the classifier asked first and the error issues used
\* only for a file it calls clean (variant; not the code's)
decide_classifier_first(di, ft, use_model, pred) ==
    LET critical_issues == SelectIssues(di, "error")
        initial == IF use_model THEN predict_with_model(ft, pred)
                   ELSE predict_with_rules(ft)
    IN IF critical_issues # <<>> /\ initial.label = "clean"
       THEN [label |-> determine_critical_smell_type(critical_issues),
             confidence |-> RuleConfidence]
       ELSE initial

\* the decision of lines 174-193: smell_type and confidence
decide(di, ft, use_model, pred) ==
    LET critical_issues == SelectIssues(di, "error")
        warning_issues == SelectIssues(di, "warning")
        initial == IF use_model THEN predict_with_model(ft, pred)
                   ELSE predict_with_rules(ft)
    IN IF critical_issues # <<>>
       THEN [label |-> determine_critical_smell_type(critical_issues),
             confidence |-> RuleConfidence]
       ELSE IF warning_issues # <<>> /\ initial.label = "clean"
       THEN [label |-> determine_warning_smell_type(warning_issues),
             confidence |-> FracMax(WarningConfidence, initial.confidence)]
       ELSE initial

(***************************************************************************)
(* The inputs of detect_smells: files, feature profiles and the answers of *)
(* an installed statistical model.                                         *)
(***************************************************************************)
DetectCatalogue == {CloseLine, CatchLine, SqlConcatLine, ForeachLine, QueryLine,
                    WhileTrueLine}
DetectFiles ==
    SeqsUpTo(DetectCatalogue, MaxLines)
    \cup {NestFile(MaxNest), ParamFile(MaxParams),
          LongFuncFile(MaxParams, MaxBody), LongFuncFile(0, MaxBody),
          LongFuncFile(MaxParams, 0),
          <<PropertyLine>>, <<CommentLine>>,
          <<SqlConcatLine, PropertyLine, QueryLine>>,
          <<ForeachLine, QueryLine, CloseLine>>}

CountValues == {0, 1}
FeatureProfiles ==
    [long_method_count : CountValues, complex_method_count : CountValues,
     large_parameter_list_count : CountValues,
     naming_convention_violations : CountValues, long_class_count : CountValues,
     comment_lines : {0, 2}, total_lines : {10},
     cyclomatic_complexity : {1, 21}]

\* the number of smell indicators a profile sets
SmellCount(ft) == Len(smell_scores(ft))
LabelProfiles ==
    {ft \in FeatureProfiles :
        SmellCount(ft) <= MaxSmells /\ ft.cyclomatic_complexity = 1}

SuggestFiles == {<<CommentLine>>, <<SqlConcatLine>>, LongFuncFile(0, MaxBody)}

ModelLabels == {"clean", "long_method", "large_class"}
ModelConfidences == {<<1, 2>>, <<9, 10>>}
Predictions ==
    {[raises |-> TRUE, label |-> "", confidence |-> <<0, 1>>]} \cup
    [raises : {FALSE}, label : ModelLabels, confidence : ModelConfidences]

(***************************************************************************)
(* php_parser.py.  The content of a file is the token stream of its lines  *)
(* (the files of the model open no string, comment or implements clause,   *)
(* and are read after the opening tag).  token_get_all separates the       *)
(* keywords from the names: a T_STRING is an identifier that is no         *)
(* keyword, a T_VARIABLE is a $name.                                       *)
(***************************************************************************)
PhpKeywords == {"class", "function", "extends", "implements", "if", "elseif",
                "else", "while", "for", "foreach", "switch", "case", "catch",
                "try", "return", "public", "private", "protected", "static",
                "echo", "as", "new"}
T_STRING(t) == IsIdent(t) /\ t \notin PhpKeywords
BranchTokens == {"if", "elseif", "while", "for", "foreach", "switch"}
ComplexityKeywords == {"if", "elseif", "else", "while", "for", "foreach",
                       "switch", "case", "catch"}

NoFacts == [classes |-> <<>>, functions |-> <<>>, complexity |-> 0]

\* for ($j = $i + 1; ...): the first T_STRING from position j on, 0 if none
RECURSIVE NextString(_, _)
NextString(toks, j) ==
    IF j > Len(toks) THEN 0
    ELSE IF T_STRING(toks[j]) THEN j
    ELSE NextString(toks, j + 1)

\* the parameter loop of the tokenizer script, from the function name on
RECURSIVE php_parameters(_, _, _, _)
php_parameters(toks, k, param_start, parameters) ==
    IF k > Len(toks) THEN parameters
    ELSE IF toks[k] = "(" THEN php_parameters(toks, k + 1, TRUE, parameters)
    ELSE IF toks[k] = ")" THEN parameters
    ELSE IF param_start /\ toks[k] = ","
         THEN php_parameters(toks, k + 1, param_start, parameters + 1)
    ELSE IF param_start /\ IsVar(toks[k]) /\ parameters = 0
         THEN php_parameters(toks, k + 1, param_start, 1)
    ELSE php_parameters(toks, k + 1, param_start, parameters)

\* the token loop; a.current_class tells that $current_class is not null.
\* $complexity starts at 1 and only grows, so the second test of the exit
\* never holds: reading the counter at every token keeps the evaluation of
\* the accumulator shallow on long files.
RECURSIVE php_token_loop(_, _, _)
php_token_loop(toks, i, a) ==
    IF i > Len(toks) \/ a.complexity < 1 THEN a
    ELSE
      LET t == toks[i]
          j == NextString(toks, i + 1)
          \* 'complexity' => 1 is never incremented afterwards
          func_info == [name |-> toks[j],
                        parameters |-> php_parameters(toks, j, FALSE, 0),
                        complexity |-> 1]
      IN php_token_loop(toks, i + 1,
           IF t = "class" /\ j # 0
           THEN [a EXCEPT !.classes =
                              Append(@, [name |-> toks[j], extends |-> "",
                                         methods |-> <<>>]),
                          !.current_class = TRUE]
           ELSE IF t = "function" /\ j # 0
           THEN IF a.current_class
                THEN [a EXCEPT !.classes[Len(a.classes)].methods =
                                   Append(@, func_info)]
                ELSE [a EXCEPT !.functions = Append(@, func_info)]
           ELSE IF t \in BranchTokens
           THEN [a EXCEPT !.complexity = @ + 1]
           ELSE a)

analyze_php_code(toks) ==
    LET a == php_token_loop(toks, 1,
                 [classes |-> <<>>, functions |-> <<>>, complexity |-> 1,
                  current_class |-> FALSE])
    IN [classes |-> a.classes, functions |-> a.functions,
        complexity |-> a.complexity]

\* class\s+(\w+)(?:\s+extends\s+(\w+))?   matched from left to right
RECURSIVE simple_classes(_, _)
simple_classes(toks, p) ==
    IF p + 1 > Len(toks) THEN <<>>
    ELSE IF toks[p] = "class" /\ IsWord(toks[p + 1])
    THEN LET ext == /\ p + 3 <= Len(toks)
                    /\ toks[p + 2] = "extends"
                    /\ IsWord(toks[p + 3])
         IN <<[name |-> toks[p + 1],
               extends |-> IF ext THEN toks[p + 3] ELSE "",
               methods |-> <<>>]>>
            \o simple_classes(toks, IF ext THEN p + 4 ELSE p + 2)
    ELSE simple_classes(toks, p + 1)

\* [^)]*\) : the first ")" from position k on, 0 if none
RECURSIVE CloseParen(_, _)
CloseParen(toks, k) ==
    IF k > Len(toks) THEN 0
    ELSE IF toks[k] = ")" THEN k
    ELSE CloseParen(toks, k + 1)

\* function\s+(\w+)\s*\([^)]*\)   matched from left to right; the parameter
\* count is the number of commas of the match plus one
RECURSIVE simple_functions(_, _)
simple_functions(toks, p) ==
    IF p + 2 > Len(toks) THEN <<>>
    ELSE LET q == CloseParen(toks, p + 3)
         IN IF /\ toks[p] = "function"
               /\ IsWord(toks[p + 1])
               /\ toks[p + 2] = "("
               /\ q # 0
            THEN <<[name |-> toks[p + 1],
                    parameters |-> Count(SubSeq(toks, p, q), ",") + 1,
                    complexity |-> 1]>>
                 \o simple_functions(toks, q + 1)
            ELSE simple_functions(toks, p + 1)

simple_parse(toks) ==
    [classes |-> simple_classes(toks, 1),
     functions |-> simple_functions(toks, 1),
     complexity |-> 1 + Cardinality({k \in 1..Len(toks) :
                                        toks[k] \in ComplexityKeywords})]

\* _simple_parse on a path: open() raises when the path does not exist
simple_parse_path(toks, exists) ==
    IF exists THEN [facts |-> simple_parse(toks), raised |-> ""]
    ELSE [facts |-> NoFacts, raised |-> "FileNotFoundError"]

(***************************************************************************)
(* parse_file.  The run of the tokenizer ends in one of BackendOutcomes:   *)
(* "ok" (exit status 0 and JSON on stdout), "missing" (no php executable:  *)
(* subprocess.run raises FileNotFoundError), "nonzero" (exit status not    *)
(* 0), "timeout" (TimeoutExpired after 30 seconds), "bad_json" (exit       *)
(* status 0, stdout is no JSON).  The script exits with status 1 on a path *)
(* that does not exist.                                                    *)
(***************************************************************************)
BackendOutcomes == {"ok", "missing", "nonzero", "timeout", "bad_json"}
BackendOutcomesOf(exists) ==
    IF exists THEN BackendOutcomes ELSE {"missing", "nonzero", "timeout"}

\* variant: the except clause does not list json.JSONDecodeError
parse_file_strict_json(toks, exists, backend) ==
    IF backend = "ok"
    THEN [facts |-> analyze_php_code(toks), raised |-> ""]
    ELSE IF backend = "bad_json"
    THEN [facts |-> NoFacts, raised |-> "JSONDecodeError"]
    ELSE simple_parse_path(toks, exists)

parse_file(toks, exists, backend) ==
    IF backend = "ok"
    THEN [facts |-> analyze_php_code(toks), raised |-> ""]
    ELSE IF backend = "nonzero"
    THEN \* the fallback is called inside the try block: its
         \* FileNotFoundError is caught and the fallback is called again
         LET r == simple_parse_path(toks, exists)
         IN IF r.raised = "FileNotFoundError"
            THEN simple_parse_path(toks, exists)
            ELSE r
    ELSE simple_parse_path(toks, exists)

\* the declarations of the parsed files
ClassFooLine == <<"class", "Foo", "{">>
ClassBarLine == <<"class", "Bar", "extends", "Foo", "{">>
IfBlockLine == IfLine \o <<"}">>
ElseBlockLine == <<"else", "{", "}">>
FuncDecl(k) == FuncLine(k) \o <<"}">>
ClassLines == {ClassFooLine, ClassBarLine}
DeclCatalogue == ClassLines \cup
                 {CloseLine, FuncDecl(0), FuncDecl(2), IfBlockLine,
                  ElseBlockLine}

\* the position after the declarations: "in" a class body, "out" of every
\* class body, or "bad" when a class opens inside a class or a brace closes
\* no class
RECURSIVE ClassOpen(_)
ClassOpen(decls) ==
    IF decls = <<>> THEN "out"
    ELSE LET before == ClassOpen(SubSeq(decls, 1, Len(decls) - 1))
             last == decls[Len(decls)]
         IN IF before = "bad" THEN "bad"
            ELSE IF last \in ClassLines
                 THEN IF before = "in" THEN "bad" ELSE "in"
            ELSE IF last = CloseLine
                 THEN IF before = "in" THEN "out" ELSE "bad"
            ELSE before

\* a function whose body holds n if blocks, one after the other
BranchyFile(n) == <<FuncLine(0)>> \o Repeat(IfBlockLine, n) \o <<CloseLine>>

ParseFiles == {d \in SeqsUpTo(DeclCatalogue, MaxDecls) : ClassOpen(d) = "out"}
              \cup {BranchyFile(n) : n \in (MaxBranches - 1)..MaxBranches}

NoParse == [called |-> FALSE, lines |-> <<>>, exists |-> TRUE, backend |-> "",
            facts |-> NoFacts, raised |-> "", extracted |-> FALSE,
            complex_method_count |-> 0]

ParseFile ==
    /\ ~parse.called
    /\ \E file \in ParseFiles : \E exists \in BOOLEAN :
       \E backend \in BackendOutcomesOf(exists) :
         LET r == parse_file(Flatten(file), exists, backend)
         IN parse' = [called |-> TRUE, lines |-> file, exists |-> exists,
                      backend |-> backend, facts |-> r.facts,
                      raised |-> r.raised, extracted |-> FALSE,
                      complex_method_count |-> 0]
    /\ UNCHANGED <<model, scaler, label_encoder, hash_seed, phase, lines,
                   failed_step, detailed_issues, scan_raised, features,
                   prediction, smell_type, confidence, issues, suggestions,
                   artifacts, detailed_analysis, ratio, inherit, batch>>

(***************************************************************************)
(* feature_extractor.py, extract_features: the file is parsed, the methods *)
(* of every class and the top-level functions are collected, and the       *)
(* methods whose recorded complexity exceeds the threshold are counted.    *)
(* An exception of parse_file leaves extract_features before any feature   *)
(* is computed.                                                            *)
(***************************************************************************)
ComplexMethodComplexity == 10        \* thresholds['complex_method_complexity']

\* the methods of the classes, then the functions
RECURSIVE all_methods(_, _)
all_methods(classes, functions) ==
    IF classes = <<>> THEN functions
    ELSE Head(classes).methods \o all_methods(Tail(classes), functions)

complex_method_count(facts) ==
    Len(SelectSeq(all_methods(facts.classes, facts.functions),
                  LAMBDA m : m.complexity > ComplexMethodComplexity))

ExtractFeatures ==
    /\ ~parse.called
    /\ \E file \in ParseFiles : \E exists \in BOOLEAN :
       \E backend \in BackendOutcomesOf(exists) :
         LET r == parse_file(Flatten(file), exists, backend)
         IN parse' = [called |-> TRUE, lines |-> file, exists |-> exists,
                      backend |-> backend, facts |-> r.facts,
                      raised |-> r.raised, extracted |-> r.raised = "",
                      complex_method_count |->
                          IF r.raised = "" THEN complex_method_count(r.facts)
                          ELSE 0]
    /\ UNCHANGED <<model, scaler, label_encoder, hash_seed, phase, lines,
                   failed_step, detailed_issues, scan_raised, features,
                   prediction, smell_type, confidence, issues, suggestions,
                   artifacts, detailed_analysis, ratio, inherit, batch>>

(***************************************************************************)
(* feature_extractor.py, _calculate_comment_ratio.  The content of a file  *)
(* is its lines joined by newline characters, with or without a newline    *)
(* after the last line (the empty content has no line and no newline);     *)
(* content.split('\n') gives the lines, and one more empty string when the *)
(* content is empty or ends with a newline.                                *)
(***************************************************************************)
SplitLines(ls, trailing_newline) ==
    IF trailing_newline \/ ls = <<>> THEN Append(ls, <<>>) ELSE ls

LineCommentMarks == {"//", "#"}

\* the loop over the lines: the comment-bearing lines counted so far
RECURSIVE comment_loop(_, _, _, _)
comment_loop(ls, i, in_block_comment, comment_lines) ==
    IF i > Len(ls) THEN comment_lines
    ELSE LET stripped == ls[i]
             in_block == in_block_comment \/ Has(stripped, {"/*"})
         IN IF Has(stripped, {"*/"})
            THEN comment_loop(ls, i + 1, FALSE, comment_lines + 1)
            ELSE IF in_block
            THEN comment_loop(ls, i + 1, TRUE, comment_lines + 1)
            ELSE IF stripped # <<>> /\ stripped[1] \in LineCommentMarks
            THEN comment_loop(ls, i + 1, FALSE, comment_lines + 1)
            ELSE comment_loop(ls, i + 1, FALSE, comment_lines)

\* the ratio as the pair of its numerator and denominator
calculate_comment_ratio(ls, trailing_newline) ==
    LET split == SplitLines(ls, trailing_newline)
    IN [comment_lines |-> comment_loop(split, 1, FALSE, 0),
        total_lines |-> Len(split)]

HashCommentLine == <<"#", "note">>
BlockOpenLine == <<"/*", "note">>
BlockTextLine == <<"*", "note">>
BlockCloseLine == <<"*/">>
RatioCatalogue == {StmtLine, CommentLine, HashCommentLine, BlockOpenLine,
                   BlockTextLine, BlockCloseLine}

\* ten lines, statements but for two line comments at lines i and j
TenLineFile(i, j, first, second) ==
    [k \in 1..10 |-> IF k = i THEN first ELSE IF k = j THEN second
                     ELSE StmtLine]
TenLineFiles ==
    UNION {{TenLineFile(i, j, first, second) :
               j \in (i + 1)..10,
               first \in {CommentLine, HashCommentLine},
               second \in {CommentLine, HashCommentLine}} : i \in 1..9}
RatioFiles == SeqsUpTo(RatioCatalogue, MaxLines) \cup TenLineFiles

NoRatio == [called |-> FALSE, lines |-> <<>>, trailing_newline |-> FALSE,
            comment_lines |-> 0, total_lines |-> 0]

CalculateCommentRatio ==
    /\ ~ratio.called
    /\ \E file \in RatioFiles :
       \E trailing_newline \in (IF file = <<>> THEN {FALSE} ELSE BOOLEAN) :
         LET r == calculate_comment_ratio(file, trailing_newline)
         IN ratio' = [called |-> TRUE, lines |-> file,
                      trailing_newline |-> trailing_newline,
                      comment_lines |-> r.comment_lines,
                      total_lines |-> r.total_lines]
    /\ UNCHANGED <<model, scaler, label_encoder, hash_seed, phase, lines,
                   failed_step, detailed_issues, scan_raised, features,
                   prediction, smell_type, confidence, issues, suggestions,
                   artifacts, detailed_analysis, parse, inherit, batch>>

(***************************************************************************)
(* feature_extractor.py, _calculate_inheritance_depth, one step per test   *)
(* of a loop condition.  inherit.pc is the position of the call: "idle"    *)
(* before it, "for" at the head of the loop over the classes, "while" at   *)
(* the test of current_extends, "search" at the loop that looks the parent *)
(* up, "done" after the return.  The depth counts up to MaxDepth.          *)
(***************************************************************************)
ClassHead(name, parent) ==
    IF parent = "" THEN <<"class", name, "{">>
    ELSE <<"class", name, "extends", parent, "{">>
ClassNames == {"Foo", "Bar"}
ParentNames == ClassNames \cup {"", "Base"}

\* files of class declarations with empty bodies
DepthFiles ==
    {Flatten([k \in 1..Len(cs) |-> <<cs[k], CloseLine>>]) :
        cs \in SeqsUpTo({ClassHead(n, p) : n \in ClassNames, p \in ParentNames},
                        MaxClasses)}

\* the index of the first class of the list with that name, 0 if none
RECURSIVE FirstNamed(_, _, _)
FirstNamed(classes, name, k) ==
    IF k > Len(classes) THEN 0
    ELSE IF classes[k].name = name THEN k
    ELSE FirstNamed(classes, name, k + 1)

NoInherit == [pc |-> "idle", classes |-> <<>>, cls |-> 0,
              current_extends |-> "", depth |-> 0, max_depth |-> 0]

\* what the call leaves alone
DepthUnchanged ==
    UNCHANGED <<model, scaler, label_encoder, hash_seed, phase, lines,
                failed_step, detailed_issues, scan_raised, features,
                prediction, smell_type, confidence, issues, suggestions,
                artifacts, detailed_analysis, parse, ratio, batch>>

\* extract_features hands the classes of the parse result to the call
StartDepth ==
    /\ inherit.pc = "idle"
    /\ \E file \in DepthFiles : \E backend \in {"ok", "timeout"} :
         inherit' = [NoInherit EXCEPT
                        !.pc = "for",
                        !.classes = parse_file(Flatten(file), TRUE,
                                               backend).facts.classes,
                        !.cls = 1]
    /\ DepthUnchanged

\* for cls in classes: the next class, or the return after the last one
ForStep ==
    /\ inherit.pc = "for"
    /\ inherit' =
         IF inherit.cls > Len(inherit.classes)
         THEN [inherit EXCEPT !.pc = "done"]
         ELSE [inherit EXCEPT
                  !.pc = "while",
                  !.depth = 1,
                  !.current_extends = inherit.classes[inherit.cls].extends]
    /\ DepthUnchanged

\* while current_extends: an empty or missing parent ends the walk
WhileStep ==
    /\ inherit.pc = "while"
    /\ inherit' =
         IF inherit.current_extends = ""
         THEN [inherit EXCEPT
                  !.pc = "for",
                  !.max_depth = Max(@, inherit.depth),
                  !.cls = @ + 1]
         ELSE [inherit EXCEPT !.pc = "search"]
    /\ DepthUnchanged

\* for other_cls in classes: the parent is found and the walk goes on from
\* it, or it is not found and the walk ends
SearchStep ==
    /\ inherit.pc = "search"
    /\ LET k == FirstNamed(inherit.classes, inherit.current_extends, 1)
           deeper == Min(inherit.depth + 1, MaxDepth)
       IN inherit' =
            IF k # 0
            THEN [inherit EXCEPT
                     !.pc = "while",
                     !.depth = deeper,
                     !.current_extends = inherit.classes[k].extends]
            ELSE [inherit EXCEPT
                     !.pc = "for",
                     !.depth = deeper,
                     !.max_depth = Max(@, deeper),
                     !.cls = @ + 1]
    /\ DepthUnchanged

CalculateInheritanceDepth == StartDepth \/ ForStep \/ WhileStep \/ SearchStep

(***************************************************************************)
(* code_smell_detector.py, _load_model.  Each artifact file of the models  *)
(* directory (model_info.json, the model, the scaler, the label encoder)   *)
(* is "absent", "ok", or "corrupt" (reading it raises).  The files are     *)
(* read in that order inside one try block; the model is read only when    *)
(* model_info.json exists.                                                 *)
(***************************************************************************)
ArtifactStates == {"absent", "ok", "corrupt"}
Artifacts == [info : ArtifactStates, model : ArtifactStates,
              scaler : ArtifactStates, encoder : ArtifactStates]

\* what each attribute holds when the try block is left, and whether an
\* exception leaves _load_model (guarded: the except clause is in place)
load_model_stages(a, guarded) ==
    LET info_raises == a.info = "corrupt"
        model_raises == a.info = "ok" /\ a.model = "corrupt"
        scaler_raises == ~info_raises /\ ~model_raises /\ a.scaler = "corrupt"
        scaler_reached == ~info_raises /\ ~model_raises
        encoder_reached == scaler_reached /\ ~scaler_raises
        encoder_raises == encoder_reached /\ a.encoder = "corrupt"
    IN [model |-> a.info = "ok" /\ a.model = "ok",
        scaler |-> scaler_reached /\ a.scaler = "ok",
        label_encoder |-> encoder_reached /\ a.encoder = "ok",
        raised |-> ~guarded /\ (info_raises \/ model_raises \/ scaler_raises
                                \/ encoder_raises)]

\* variant: the body is not wrapped in try/except
load_model_unguarded(a) == load_model_stages(a, FALSE)

load_model(a) == load_model_stages(a, TRUE)

\* artifact files from which _load_model loads just these attributes
ArtifactsOf(m, s, e) ==
    [info |-> IF m THEN "ok" ELSE "absent",
     model |-> IF m THEN "ok" ELSE "absent",
     scaler |-> IF s THEN "ok" ELSE "absent",
     encoder |-> IF e THEN "ok" ELSE "absent"]

\* FeatureExtractor.detailed_analysis before the first extract_features
NoAnalysis == [set |-> FALSE, lines |-> <<>>]

(***************************************************************************)
(* code_smell_detector.py, detect_batch.  batch.pc is "idle" before the    *)
(* call, "loop" inside the for loop, "returned" after the return and       *)
(* "raised" when an exception left the call; batch.i is the index of the   *)
(* next file, batch.returned what the caller of detect_batch received.     *)
(***************************************************************************)
NoBatch == [pc |-> "idle", items |-> <<>>, i |-> 0, results |-> <<>>,
            raised |-> "",
            returned |-> [has |-> FALSE, value |-> <<>>]]

(***************************************************************************)
(* The state after construction (__init__ and _load_model): each of model, *)
(* scaler and label encoder is loaded or left None; nothing was analysed.  *)
(***************************************************************************)
NoFeatures == [long_method_count |-> 0, complex_method_count |-> 0,
               large_parameter_list_count |-> 0,
               naming_convention_violations |-> 0, long_class_count |-> 0,
               comment_lines |-> 0, total_lines |-> 0,
               cyclomatic_complexity |-> 0]
NoPrediction == [raises |-> FALSE, label |-> "", confidence |-> <<0, 1>>]

Init ==
    /\ model \in BOOLEAN
    /\ scaler \in BOOLEAN
    /\ label_encoder \in BOOLEAN
    /\ hash_seed \in 0..MaxSeed
    /\ phase = "ready"
    /\ lines = <<>>
    /\ failed_step = NoFailure
    /\ detailed_issues = <<>>
    /\ scan_raised = FALSE
    /\ features = NoFeatures
    /\ prediction = NoPrediction
    /\ smell_type = ""
    /\ confidence = <<0, 1>>
    /\ issues = <<>>
    /\ suggestions = <<>>
    /\ artifacts = ArtifactsOf(model, scaler, label_encoder)
    /\ detailed_analysis = NoAnalysis
    /\ parse = NoParse
    /\ ratio = NoRatio
    /\ inherit = NoInherit
    /\ batch = NoBatch

(***************************************************************************)
(* A call of _detect_detailed_issues on a file, any step of which may      *)
(* raise.  A behaviour is one call on a freshly constructed detector.      *)
(***************************************************************************)
ScanFile ==
    /\ phase = "ready"
    /\ \E file \in Files : \E fail \in FailureSteps :
        LET r == detect_detailed_issues(file, fail)
        IN /\ phase' = "scanned"
           /\ lines' = file
           /\ failed_step' = fail
           /\ detailed_issues' = r.issues
           /\ scan_raised' = r.raised
           /\ UNCHANGED <<model, scaler, label_encoder, hash_seed, features,
                          prediction, smell_type, confidence, issues,
                          suggestions, artifacts, detailed_analysis, parse,
                          ratio, inherit, batch>>

NextScan == ScanFile

\* the scan reads neither the model artifacts nor the hash seed: its
\* specification starts from the detector constructed without artifacts
InitScan ==
    /\ Init
    /\ ~model /\ ~scaler /\ ~label_encoder
    /\ hash_seed = 0

SpecScan == InitScan /\ [][NextScan]_vars

(***************************************************************************)
(* A call of detect_smells on an existing readable file: the features are  *)
(* extracted, the file is scanned, the label is decided and the            *)
(* suggestions are generated.  The statistical model is consulted only     *)
(* when no error issue was found and model, scaler and label encoder are   *)
(* all loaded.                                                             *)
(***************************************************************************)
\* _detect_detailed_issues on each file of the runs, no pass failing
ScanOf ==
    [file \in DetectFiles \cup SuggestFiles |->
        detect_detailed_issues(file, NoFailure)]

DetectSmellsOn(FileSet, ProfileSet) ==
    /\ phase = "ready"
    /\ \E file \in FileSet :
        LET scan == ScanOf[file]
            di == scan.issues
            use_model == model /\ scaler /\ label_encoder
            consulted == use_model /\ SelectIssues(di, "error") = <<>>
        IN \E ft \in ProfileSet :
           \E pred \in (IF consulted THEN Predictions ELSE {NoPrediction}) :
             LET iss == detect_specific_issues(ft)
                 d == decide(di, ft, use_model, pred)
             IN /\ phase' = "detected"
                /\ lines' = file
                /\ failed_step' = NoFailure
                /\ detailed_issues' = di
                /\ scan_raised' = scan.raised
                /\ features' = ft
                /\ prediction' = pred
                /\ issues' = iss
                /\ smell_type' = d.label
                /\ confidence' = d.confidence
                /\ suggestions' = generate_suggestions(iss, d.label, hash_seed)
                /\ detailed_analysis' = [set |-> TRUE, lines |-> file]
                /\ UNCHANGED <<model, scaler, label_encoder, hash_seed,
                               artifacts, parse, ratio, inherit, batch>>

DetectSmells == DetectSmellsOn(DetectFiles, LabelProfiles)

Next == DetectSmells

Spec == Init /\ [][Next]_vars

\* the same call over few files and every feature profile
DetectSmellsProfiles == DetectSmellsOn(SuggestFiles, FeatureProfiles)

NextSuggest == DetectSmellsProfiles

SpecSuggest == Init /\ [][NextSuggest]_vars

(***************************************************************************)
(* The construction of a detector: __init__ leaves model, scaler and label *)
(* encoder None and calls _load_model on the artifact files it meets.      *)
(***************************************************************************)
InitLoad ==
    /\ model = FALSE
    /\ scaler = FALSE
    /\ label_encoder = FALSE
    /\ hash_seed = 0
    /\ phase = "constructing"
    /\ lines = <<>>
    /\ failed_step = NoFailure
    /\ detailed_issues = <<>>
    /\ scan_raised = FALSE
    /\ features = NoFeatures
    /\ prediction = NoPrediction
    /\ smell_type = ""
    /\ confidence = <<0, 1>>
    /\ issues = <<>>
    /\ suggestions = <<>>
    /\ artifacts \in Artifacts
    /\ detailed_analysis = NoAnalysis
    /\ parse = NoParse
    /\ ratio = NoRatio
    /\ inherit = NoInherit
    /\ batch = NoBatch

\* phase becomes "ready", or "failed" when the constructor raises
LoadModel ==
    /\ phase = "constructing"
    /\ LET r == load_model(artifacts)
       IN /\ model' = r.model
          /\ scaler' = r.scaler
          /\ label_encoder' = r.label_encoder
          /\ phase' = IF r.raised THEN "failed" ELSE "ready"
    /\ UNCHANGED <<hash_seed, lines, failed_step, detailed_issues,
                   scan_raised, features, prediction, smell_type, confidence,
                   issues, suggestions, artifacts, detailed_analysis, parse,
                   ratio, inherit, batch>>

\* detect_smells on the constructed detector
DetectSmellsLoaded == DetectSmellsOn(SuggestFiles, LabelProfiles)

NextLoad == LoadModel \/ DetectSmellsLoaded

SpecLoad == InitLoad /\ [][NextLoad]_vars

(***************************************************************************)
(* The parser and the feature computations, one call per behaviour.        *)
(***************************************************************************)
NextParse == ParseFile \/ ExtractFeatures

SpecParse == InitScan /\ [][NextParse]_vars

NextRatio == CalculateCommentRatio

SpecRatio == InitScan /\ [][NextRatio]_vars

\* the statements of _calculate_inheritance_depth run one after the other
\* until the call returns
NextDepth == CalculateInheritanceDepth

SpecDepth == InitScan /\ [][NextDepth]_vars /\ WF_vars(NextDepth)

(***************************************************************************)
(* detect_batch over a list of files.  An item of the list is a path with  *)
(* what its analysis meets: kind "ok" (detect_smells returns), "missing"   *)
(* (the path does not exist: detect_smells raises FileNotFoundError before *)
(* it reads anything), "raises" (an Exception leaves detect_smells after   *)
(* the features were extracted).                                           *)
(***************************************************************************)
BatchFiles == {<<>>, <<CommentLine>>, <<SqlConcatLine>>}
BatchProfiles == {ft \in LabelProfiles :
                     /\ ft.comment_lines = 2
                     /\ ft.complex_method_count = 0
                     /\ ft.large_parameter_list_count = 0
                     /\ ft.naming_convention_violations = 0
                     /\ ft.long_class_count = 0}
CleanProfile == CHOOSE ft \in BatchProfiles : ft.long_method_count = 0
BatchItems ==
    [kind : {"ok"}, lines : BatchFiles, features : BatchProfiles]
    \cup [kind : {"raises"}, lines : BatchFiles, features : {CleanProfile}]
    \cup [kind : {"missing"}, lines : {<<>>}, features : {CleanProfile}]

\* variant: the lines kept by the last extract_features are used again
analysed_lines_cached(file, cache) ==
    IF cache.set THEN cache.lines ELSE file

\* the lines a call analyses: each call opens the file of its own path
analysed_lines(file, cache) == file

\* the SmellDetectionResult of detect_smells, without a statistical model
detect_smells(item, cache, seed) ==
    LET ls == analysed_lines(item.lines, cache)
        di == ScanOf[ls].issues
        iss == detect_specific_issues(item.features)
        d == decide(di, item.features, FALSE, NoPrediction)
    IN [file_path |-> item.lines, smell_type |-> d.label,
        confidence |-> d.confidence, features |-> item.features,
        issues |-> iss,
        suggestions |-> generate_suggestions(iss, d.label, seed),
        detailed_issues |-> di]

\* variant: the except clause of the loop lets FileNotFoundError pass
batch_step_not_found_fatal(b, item, result) ==
    IF item.kind = "ok"
    THEN [b EXCEPT !.results = Append(@, result), !.i = @ + 1]
    ELSE IF item.kind = "missing"
    THEN [b EXCEPT !.pc = "raised", !.raised = "FileNotFoundError"]
    ELSE [b EXCEPT !.i = @ + 1]

\* one pass of the loop body: the result is appended, or the exception is
\* printed and the loop continues
batch_step(b, item, result) ==
    IF item.kind = "ok"
    THEN [b EXCEPT !.results = Append(@, result), !.i = @ + 1]
    ELSE [b EXCEPT !.i = @ + 1]

\* what the call leaves alone
BatchUnchanged ==
    UNCHANGED <<model, scaler, label_encoder, hash_seed, phase, lines,
                failed_step, detailed_issues, scan_raised, features,
                prediction, smell_type, confidence, issues, suggestions,
                artifacts, parse, ratio, inherit>>

StartBatch ==
    /\ phase = "ready"
    /\ batch.pc = "idle"
    /\ \E items \in SeqsUpTo(BatchItems, MaxBatch) :
         batch' = [NoBatch EXCEPT !.pc = "loop", !.items = items, !.i = 1]
    /\ UNCHANGED detailed_analysis
    /\ BatchUnchanged

AnalyseNext ==
    /\ batch.pc = "loop"
    /\ batch.i <= Len(batch.items)
    /\ LET item == batch.items[batch.i]
       IN /\ batch' = batch_step(batch, item,
                                 detect_smells(item, detailed_analysis,
                                               hash_seed))
          /\ detailed_analysis' =
               IF item.kind = "missing" THEN detailed_analysis
               ELSE [set |-> TRUE, lines |-> item.lines]
    /\ BatchUnchanged

\* KeyboardInterrupt while file i is analysed: no except clause of the loop
\* catches it, it leaves detect_batch, and main prints a message
InterruptBatch ==
    /\ batch.pc = "loop"
    /\ batch.i <= Len(batch.items)
    /\ batch' = [batch EXCEPT !.pc = "raised", !.raised = "KeyboardInterrupt"]
    /\ \E written \in BOOLEAN :
         detailed_analysis' =
            IF written /\ batch.items[batch.i].kind # "missing"
            THEN [set |-> TRUE, lines |-> batch.items[batch.i].lines]
            ELSE detailed_analysis
    /\ BatchUnchanged

ReturnBatch ==
    /\ batch.pc = "loop"
    /\ batch.i > Len(batch.items)
    /\ batch' = [batch EXCEPT
                    !.pc = "returned",
                    !.returned = [has |-> TRUE, value |-> batch.results]]
    /\ UNCHANGED detailed_analysis
    /\ BatchUnchanged

DetectBatch == StartBatch \/ AnalyseNext \/ InterruptBatch \/ ReturnBatch

NextBatch == DetectBatch

SpecBatch == InitScan /\ [][NextBatch]_vars

(***************************************************************************)
(* detect_smells with the rule-based classifier over feature profiles      *)
(* whose counts pass every divisor of the scores.                          *)
(***************************************************************************)
ConfidenceCounts == {0, 1, MaxCount}
ConfidenceProfiles ==
    {ft \in [long_method_count : ConfidenceCounts,
             complex_method_count : ConfidenceCounts,
             large_parameter_list_count : ConfidenceCounts,
             naming_convention_violations : ConfidenceCounts,
             long_class_count : ConfidenceCounts,
             comment_lines : {0, 1, MaxCount}, total_lines : {1, MaxCount},
             cyclomatic_complexity : {1}] :
        ft.comment_lines <= ft.total_lines}

DetectSmellsRules == DetectSmellsOn(SuggestFiles, ConfidenceProfiles)

NextConfidence == DetectSmellsRules

SpecConfidence == InitScan /\ [][NextConfidence]_vars

(***************************************************************************)
(* Properties.  Spec is the decision over the files of DetectFiles,        *)
(* SpecSuggest the same call over every feature profile, SpecScan the rule *)
(* scan alone.                                                             *)
(***************************************************************************)
Detected == phase = "detected"
Scanned == phase = "scanned" /\ failed_step = NoFailure
ErrorIssues == SelectIssues(detailed_issues, "error")
WarningIssues == SelectIssues(detailed_issues, "warning")
TypeCount(seq, t) == Len(SelectSeq(seq, LAMBDA x : x.type = t))
\* what the classifier of this detector answers for the analysed file
ClassifierAnswer ==
    IF model /\ scaler /\ label_encoder
    THEN predict_with_model(features, prediction)
    ELSE predict_with_rules(features)

\* C1: whenever the scan produced an error issue, the confidence is 0.95
\* and the label is one of the five labels of the error mapping, whatever
\* the features and the classifier; one sql_injection_risk error (with any
\* warnings) gives security_issues.
C1_ErrorsDecide ==
    (Detected /\ ErrorIssues # <<>>) =>
        /\ FracEq(confidence, <<95, 100>>)
        /\ smell_type \in {"security_issues", "logic_errors",
                           "error_handling_issues", "performance_issues",
                           "critical_issues"}
        /\ (Len(ErrorIssues) = 1 /\ ErrorIssues[1].type = "sql_injection_risk"
               => smell_type = "security_issues")

\* one sql_injection_risk error with three warnings, all model artifacts
\* loaded, and features for which the rules would have answered long_method
C1_Witness ==
    /\ Detected /\ model /\ scaler /\ label_encoder
    /\ Len(ErrorIssues) = 1 /\ ErrorIssues[1].type = "sql_injection_risk"
    /\ Len(WarningIssues) >= 3
    /\ predict_with_rules(features).label = "long_method"
    /\ smell_type = "security_issues"

\* the precedence as C2 words it
C2_Claimed(types) ==
    IF types \cap {"sql_injection_risk", "xss_risk", "password_security"} # {}
    THEN "security_issues"
    ELSE IF types \cap {"infinite_loop_risk", "infinite_recursion_risk"} # {}
    THEN "logic_errors"
    ELSE IF "empty_catch_block" \in types THEN "error_handling_issues"
    ELSE IF "query_in_loop" \in types THEN "performance_issues"
    ELSE "critical_issues"

\* C2: the label of a file with error issues is the first match of
\* security > infinite loop or recursion > empty handler > performance >
\* critical over the set of its error types; a query_in_loop error without
\* security, loop, recursion and empty-catch errors gives performance_issues.
C2_Precedence ==
    (Detected /\ ErrorIssues # <<>>) =>
        smell_type = C2_Claimed(TypesOf(ErrorIssues))

\* the precedence as C3 words it; naming and missing-comment stand for the
\* issue types of the naming and documentation passes
C3_Claimed(types) ==
    IF "long_method" \in types THEN "long_method"
    ELSE IF "long_parameter_list" \in types THEN "long_parameter_list"
    ELSE IF "naming_violation" \in types THEN "naming_issues"
    ELSE IF types \cap {"missing_documentation", "missing_class_comment"} # {}
    THEN "low_cohesion"
    ELSE "code_quality_issues"

\* C3: without error issues, a classifier answer 'clean' together with a
\* warning issue is replaced by the first match of the warning precedence
\* (never 'clean'), with confidence the larger of 0.75 and the classifier's;
\* without warning issues the classifier's label and confidence are returned.
C3_WarningOverride ==
    (Detected /\ ErrorIssues = <<>>) =>
        /\ (WarningIssues # <<>> /\ ClassifierAnswer.label = "clean") =>
              /\ smell_type # "clean"
              /\ smell_type = C3_Claimed(TypesOf(WarningIssues))
              /\ FracEq(confidence,
                        IF FracLeq(ClassifierAnswer.confidence, <<3, 4>>)
                        THEN <<3, 4>> ELSE ClassifierAnswer.confidence)
        /\ WarningIssues = <<>> =>
              /\ smell_type = ClassifierAnswer.label
              /\ confidence = ClassifierAnswer.confidence

\* a file with long_method and long_parameter_list warnings, a loaded model
\* answering 'clean' with confidence 1/2: long_method at 0.75
C3_Witness ==
    /\ Detected /\ ErrorIssues = <<>>
    /\ {"long_method", "long_parameter_list"} \subseteq TypesOf(WarningIssues)
    /\ model /\ scaler /\ label_encoder /\ ~prediction.raises
    /\ prediction.label = "clean" /\ prediction.confidence = <<1, 2>>
    /\ smell_type = "long_method" /\ FracEq(confidence, <<3, 4>>)

\* C4: the suggestion list has at most 5 entries and no two equal ones.
C4_SuggestionsDistinctCapped ==
    /\ Len(suggestions) <= 5
    /\ \A i, j \in 1..Len(suggestions) :
          i # j => suggestions[i] # suggestions[j]

\* more than 5 suggestions were collected and 5 are returned
C4_Witness ==
    /\ Detected
    /\ Len(collected_suggestions(issues, smell_type)) > 5
    /\ Len(suggestions) = 5

\* the distinct entries of a list in the order of their first occurrence
RECURSIVE FirstOccurrences(_, _)
FirstOccurrences(seq, seen) ==
    IF seq = <<>> THEN <<>>
    ELSE IF Head(seq) \in seen THEN FirstOccurrences(Tail(seq), seen)
    ELSE <<Head(seq)>> \o FirstOccurrences(Tail(seq), seen \cup {Head(seq)})

\* C5: the suggestion list is the first 5 of the distinct suggestions in
\* the order of first occurrence (fix hints in issue order, then the tips
\* of the final label).
C5_FirstOccurrenceOrder ==
    Detected =>
        LET ordered ==
                FirstOccurrences(collected_suggestions(issues, smell_type), {})
        IN suggestions = SubSeq(ordered, 1, Min(5, Len(ordered)))

\* C6: in the output of the whole scan a one-line function of 5 parameters
\* has no long_parameter_list issue and one of 6 parameters has exactly one.
C6_ParameterBoundary ==
    Scanned =>
        /\ lines = ParamFile(5) =>
              TypeCount(detailed_issues, "long_parameter_list") = 0
        /\ lines = ParamFile(6) =>
              TypeCount(detailed_issues, "long_parameter_list") = 1

\* C7: a method of n nested if blocks has exactly one complex_method issue,
\* of severity error, when n = 5, and none when n <= 4.
C7_NestingBoundary ==
    Scanned =>
        /\ lines = NestFile(5) =>
              /\ TypeCount(detailed_issues, "complex_method") = 1
              /\ TypeCount(ErrorIssues, "complex_method") = 1
        /\ \A n \in 0..4 :
              lines = NestFile(n) =>
                  TypeCount(detailed_issues, "complex_method") = 0

\* the method of 5 nested if blocks was scanned and reported
C7_Witness ==
    /\ Scanned /\ lines = NestFile(5)
    /\ TypeCount(ErrorIssues, "complex_method") = 1

\* lines on which a SQL verb is followed by a concatenated or interpolated
\* variable
C8_Injectable == {SqlConcatLine, SqlInterpLine, SqlBraceLine, SqlDollarLine}

\* C8: such a line without a prepared-statement marker has exactly one
\* sql_injection_risk issue, of severity error, on that line; the same line
\* carrying a marker (a "?" placeholder, bindParam, ...) has none.
C8_SqlInjection ==
    Scanned =>
        \A l \in C8_Injectable :
            /\ lines = <<l>> =>
                  /\ TypeCount(detailed_issues, "sql_injection_risk") = 1
                  /\ TypeCount(ErrorIssues, "sql_injection_risk") = 1
            /\ \A m \in SqlMarkers :
                  lines = <<l \o <<m>> >> =>
                      TypeCount(detailed_issues, "sql_injection_risk") = 0

\* the empty_catch_block issues reported at line i
C9_Reported(i) ==
    SelectSeq(detailed_issues,
              LAMBDA x : x.type = "empty_catch_block" /\ x.line_number = i)

\* C9: a catch line followed by a line "}" has exactly one empty_catch_block
\* issue, of severity error, at the catch line; a catch line followed by
\* any other line, or ending the file, has none.
C9_EmptyCatch ==
    Scanned =>
        \A i \in 1..Len(lines) :
            lines[i] = CatchLine =>
                IF i < Len(lines) /\ lines[i + 1] = CloseLine
                THEN /\ Len(C9_Reported(i)) = 1
                     /\ C9_Reported(i)[1].severity = "error"
                ELSE C9_Reported(i) = <<>>

\* a catch line with an empty block was scanned and reported
C9_Witness ==
    /\ Scanned /\ lines = <<CatchLine, CloseLine>>
    /\ Len(C9_Reported(1)) = 1

\* the issues of pass k when the scan got past it
C10_Ran(k, found) == IF failed_step > k THEN found ELSE <<>>

\* C10: the scan never raises to its caller and returns the issues of the
\* passes that completed before the failing step, concatenated in the
\* order long method, complex method, long parameter list, naming, missing
\* documentation, SQL injection, security, code quality, logic errors,
\* performance; nothing of the failing pass or a later one is included.
C10_ScanTotalOrdered ==
    phase = "scanned" =>
        /\ ~scan_raised
        /\ detailed_issues =
              C10_Ran(1, find_long_methods(lines))
              \o C10_Ran(2, find_complex_methods(lines))
              \o C10_Ran(3, find_long_parameter_lists(lines))
              \o C10_Ran(4, find_naming_issues(lines))
              \o C10_Ran(5, find_uncommented_methods(lines))
              \o C10_Ran(6, find_sql_injection_risks(lines))
              \o C10_Ran(7, find_security_issues(lines))
              \o C10_Ran(8, find_code_quality_issues(lines))
              \o C10_Ran(9, find_logic_errors(lines))
              \o C10_Ran(10, find_performance_issues(lines))

\* a pass in the middle failed: issues of earlier passes are returned and
\* issues of later passes were there to find
C10_Witness ==
    /\ phase = "scanned" /\ failed_step \in 2..NumPasses
    /\ detailed_issues # <<>>
    /\ PassesFrom(lines, failed_step, NumPasses) # <<>>

(***************************************************************************)
(* Properties of the parser (SpecParse).                                   *)
(***************************************************************************)
Parsed == parse.called /\ parse.raised = ""
ParsedTokens == Flatten(parse.lines)
FunctionFacts(fs) == [k \in 1..Len(fs) |-> <<fs[k].name, fs[k].parameters>>]
NamesOf(fs) == [k \in 1..Len(fs) |-> fs[k].name]

\* C11: for every file the tokenizer backend and the fallback return the
\* same classes, the same top-level functions with the same parameter
\* counts, and the same file complexity.
C11_BackendsAgree ==
    Parsed =>
        LET php == analyze_php_code(ParsedTokens)
            simple == simple_parse(ParsedTokens)
        IN /\ NamesOf(php.classes) = NamesOf(simple.classes)
           /\ FunctionFacts(php.functions) = FunctionFacts(simple.functions)
           /\ php.complexity = simple.complexity

\* C12: for an existing file parse_file returns facts whatever the backend
\* does, and they are the fallback's facts whenever the tokenizer is
\* missing, exits with a nonzero status, times out or prints no JSON; for
\* a path that does not exist it fails with the not-found error.
C12_ParseFileDegrades ==
    parse.called =>
        IF parse.exists
        THEN /\ parse.raised = ""
             /\ parse.backend # "ok" =>
                    parse.facts = simple_parse(ParsedTokens)
        ELSE parse.raised = "FileNotFoundError"

\* the tokenizer printed no JSON for a file that declares a class and a
\* function, and the caller received the fallback's facts
C12_Witness ==
    /\ Parsed /\ parse.exists /\ parse.backend = "bad_json"
    /\ parse.facts.classes # <<>> /\ parse.facts.functions # <<>>
    /\ parse.facts = simple_parse(ParsedTokens)

\* the declarations sorted as C18 words it: a function declared while a
\* class body is open is a method of that class, every other function is
\* a top-level function
RECURSIVE C18_Sorted(_, _, _)
C18_Sorted(decls, k, acc) ==
    IF k > Len(decls) THEN acc
    ELSE LET d == decls[k]
         IN C18_Sorted(decls, k + 1,
              IF d \in ClassLines
              THEN [acc EXCEPT !.methods = Append(@, <<>>), !.open = TRUE]
              ELSE IF d = CloseLine THEN [acc EXCEPT !.open = FALSE]
              ELSE IF d[1] = "function"
              THEN IF acc.open
                   THEN [acc EXCEPT !.methods[Len(acc.methods)] =
                                        Append(@, d[2])]
                   ELSE [acc EXCEPT !.functions = Append(@, d[2])]
              ELSE acc)

\* C18: in the facts returned by parse, a function declared while a class
\* body is open is in that class's method list and nowhere else, and a
\* function declared outside every class body, also after a class body
\* was closed, is only in the top-level function list.
C18_MethodOwnership ==
    Parsed =>
        LET sorted == C18_Sorted(parse.lines, 1,
                          [methods |-> <<>>, functions |-> <<>>,
                           open |-> FALSE])
            classes == parse.facts.classes
        IN /\ Len(classes) = Len(sorted.methods)
           /\ \A k \in 1..Len(classes) :
                 NamesOf(classes[k].methods) = sorted.methods[k]
           /\ NamesOf(parse.facts.functions) = sorted.functions

(***************************************************************************)
(* Properties of the comment ratio (SpecRatio).                            *)
(***************************************************************************)
C16_LineComment(line) == line # <<>> /\ line[1] \in {"//", "#"}
C16_TenLinesTwoComments ==
    /\ Len(ratio.lines) = 10
    /\ Cardinality({k \in 1..10 : C16_LineComment(ratio.lines[k])}) = 2
    /\ \A k \in 1..10 : ~Has(ratio.lines[k], {"/*", "*/"})

\* C16: for a file of exactly 10 lines, exactly 2 of them full-line
\* comments and none in a block comment, the comment-bearing line count is
\* 2 and the total line count is 10, with or without a newline after the
\* last line.
C16_CommentRatio ==
    (ratio.called /\ C16_TenLinesTwoComments) =>
        ratio.comment_lines = 2 /\ ratio.total_lines = 10

(***************************************************************************)
(* Properties of the inheritance depth (SpecDepth).                        *)
(***************************************************************************)
\* C20: the inheritance-depth computation returns for every class set the
\* parser gives it, also when the extends links form a cycle.
C20_DepthTerminates == <>(inherit.pc = "done")

(***************************************************************************)
(* Properties of detect_batch (SpecBatch).                                 *)
(***************************************************************************)
\* the items of the list before index i whose analysis returns
Succeeded(items, i) ==
    SelectSeq(SubSeq(items, 1, i - 1), LAMBDA item : item.kind = "ok")

\* C13: no file's failure leaves detect_batch: a missing file and a file
\* whose analysis raises are skipped, the later files are still analysed,
\* and the returned list holds one result for each file that succeeded, in
\* input order, so it is no longer than the input list.
C13_BatchSkipsFailures ==
    /\ batch.raised \in {"", "KeyboardInterrupt"}
    /\ batch.pc # "idle" =>
          LET ok == Succeeded(batch.items, batch.i)
          IN /\ Len(batch.results) = Len(ok)
             /\ \A k \in 1..Len(ok) :
                   /\ batch.results[k].file_path = ok[k].lines
                   /\ batch.results[k].features = ok[k].features
    /\ batch.pc = "returned" =>
          /\ batch.i = Len(batch.items) + 1
          /\ batch.returned.has
          /\ batch.returned.value = batch.results
          /\ Len(batch.returned.value) <= Len(batch.items)

\* a missing file came first, the file after it was analysed and is the
\* one result of the returned list
C13_Witness ==
    /\ batch.pc = "returned" /\ Len(batch.items) = 2
    /\ batch.items[1].kind = "missing" /\ batch.items[2].kind = "ok"
    /\ Len(batch.returned.value) = 1
    /\ batch.returned.value[1].file_path = batch.items[2].lines

\* C14: when the batch is interrupted while a file is analysed, the
\* results of the files completed before it are available to the caller
\* of the batch.
C14_InterruptKeepsResults ==
    (batch.raised = "KeyboardInterrupt" /\ batch.results # <<>>) =>
        batch.returned.has /\ batch.returned.value = batch.results

\* C19: the result of a file is the one a detector that analysed nothing
\* before gives for it, whatever files the instance analysed before and
\* whatever their outcome.
C19_FilesIndependent ==
    \A k \in 1..Len(batch.results) :
        batch.results[k] =
            detect_smells(Succeeded(batch.items, batch.i)[k], NoAnalysis,
                          hash_seed)

\* a file with an SQL injection was analysed first and its analysis
\* raised; the comment-only file after it got its own result
C19_Witness ==
    /\ Len(batch.items) = 2 /\ batch.i = 3
    /\ batch.items[1].kind = "raises"
    /\ batch.items[1].lines = <<SqlConcatLine>>
    /\ batch.items[2].kind = "ok" /\ batch.items[2].lines = <<CommentLine>>
    /\ detailed_analysis.lines = <<CommentLine>>
    /\ Len(batch.results) = 1
    /\ batch.results[1].smell_type # "security_issues"

(***************************************************************************)
(* Properties of the construction (SpecLoad).                              *)
(***************************************************************************)
\* C15: the constructor never raises, whatever artifact files are absent
\* or corrupt, and loads nothing from a file that is not intact; the
\* statistical classifier is consulted only when model, scaler and label
\* encoder are all loaded, otherwise the rules decide; and when the
\* statistical prediction raises, the result is the rules' result.
C15_ArtifactsNeverFatal ==
    /\ phase # "failed"
    /\ phase # "constructing" =>
          /\ model => artifacts.info = "ok" /\ artifacts.model = "ok"
          /\ scaler => artifacts.scaler = "ok"
          /\ label_encoder => artifacts.encoder = "ok"
    /\ (Detected /\ ErrorIssues = <<>>) =>
          LET statistical == /\ model /\ scaler /\ label_encoder
                             /\ ~prediction.raises
              answer == IF statistical
                        THEN [label |-> prediction.label,
                              confidence |-> prediction.confidence]
                        ELSE predict_with_rules(features)
          IN /\ ~(model /\ scaler /\ label_encoder) =>
                    prediction = NoPrediction
             /\ IF WarningIssues # <<>> /\ answer.label = "clean"
                THEN smell_type = determine_warning_smell_type(WarningIssues)
                ELSE /\ smell_type = answer.label
                     /\ confidence = answer.confidence

\* the label encoder file is corrupt, model and scaler were loaded, and
\* the file got the label of the rules
C15_Witness ==
    /\ Detected /\ ErrorIssues = <<>> /\ WarningIssues = <<>>
    /\ artifacts.encoder = "corrupt"
    /\ model /\ scaler /\ ~label_encoder
    /\ prediction = NoPrediction
    /\ smell_type = predict_with_rules(features).label
    /\ smell_type # "clean"

(***************************************************************************)
(* Properties of the confidence (SpecConfidence).                          *)
(***************************************************************************)
\* C17: with the rule-based classifier the confidence of every result lies
\* in [0,1], for every feature profile and every issue list, on the error
\* path, the plain classifier path and the warning-override path.
C17_ConfidenceInUnitInterval ==
    Detected =>
        /\ confidence[2] > 0
        /\ FracLeq(<<0, 1>>, confidence)
        /\ FracLeq(confidence, <<1, 1>>)

\* no issue was found by the scan, the long-method count is far above the
\* divisor of its score, and the confidence is the cap
C17_Witness ==
    /\ Detected /\ ErrorIssues = <<>> /\ WarningIssues = <<>>
    /\ ~(model /\ scaler /\ label_encoder)
    /\ features.long_method_count = MaxCount
    /\ smell_type = "long_method"
    /\ FracEq(confidence, <<1, 1>>)

\* the lines after the declaration on line i that call the function declared
\* there
SelfCalls(ls, i) ==
    {j \in (i + 1)..Len(ls) : Adj(ls[j], {FunctionName(ls[i])}, {"("})}

\* C21: an infinite_recursion_risk issue is reported at a declaration only
\* if some line other than the declaration line calls the declared function;
\* a function that never calls itself is never reported.
C21_RecursionNeedsSelfCall ==
    Scanned =>
        \A k \in 1..Len(detailed_issues) :
            detailed_issues[k].type = "infinite_recursion_risk" =>
                SelfCalls(lines, detailed_issues[k].line_number) # {}

\* the declaration of SplitParamFile(k) written on one line
JoinedParamFile(k) == <<FuncLine(k), ReturnLine, CloseLine>>

\* C23: a declaration whose "(" is on the declaration line and whose
\* parameters and ")" are on the next line gets the long_parameter_list
\* issues that the same declaration written on one line gets.
C23_CrossLineParameters ==
    Scanned =>
        \A k \in 0..MaxParams :
            lines = SplitParamFile(k) =>
                TypeCount(detailed_issues, "long_parameter_list")
                    = TypeCount(detect_detailed_issues(JoinedParamFile(k),
                                                       NoFailure).issues,
                                "long_parameter_list")

\* C24: a method whose body nests n if blocks one inside the other has
\* exactly one complex_method issue when n > 4 and none otherwise, also
\* when the nested blocks come after an earlier block of the same body was
\* closed.
C24_NestingAnywhereInBody ==
    Scanned =>
        \A n \in 0..MaxNest :
            lines \in {NestFile(n), LateNestFile(n)} =>
                TypeCount(detailed_issues, "complex_method")
                    = (IF n > MaxNesting THEN 1 ELSE 0)

\* the line that closes the brace-delimited body opened on line i: the line
\* on which the braces counted from line i on are balanced again, the line
\* after the last one when they never are
RECURSIVE BodyEnd(_, _, _)
BodyEnd(ls, j, depth) ==
    LET d == depth + Count(ls[j], "{") - Count(ls[j], "}")
    IN IF d <= 0 THEN j
       ELSE IF j = Len(ls) THEN j + 1
       ELSE BodyEnd(ls, j + 1, d)

LookAheadTypes == {"query_in_loop", "string_concat_in_loop",
                   "regex_compile_in_loop", "memory_leak_risk"}

\* C25: a query_in_loop, string_concat_in_loop, regex_compile_in_loop or
\* memory_leak_risk issue is reported only on a line inside the
\* brace-delimited body of a loop header above it; a call after the closing
\* brace of the loop is not reported.
C25_LookAheadInsideLoopBody ==
    Scanned =>
        \A k \in 1..Len(detailed_issues) :
            detailed_issues[k].type \in LookAheadTypes =>
                \E i \in 1..(detailed_issues[k].line_number - 1) :
                    /\ LoopHeader(lines[i])
                    /\ detailed_issues[k].line_number < BodyEnd(lines, i, 0)

\* the issues of type t reported at line i
ReportedAt(t, i) ==
    Len(SelectSeq(detailed_issues,
                  LAMBDA x : x.type = t /\ x.line_number = i))

\* an error check on one of the three lines that follow line i
CheckedAfter(ls, i) ==
    \E j \in (i + 1)..Min(i + ErrorLookAhead, Len(ls)) : ErrorHandling(ls[j])

\* C26: a line with a ->query(, ->exec( or mail( call has one
\* missing_error_handling issue exactly when none of the three lines that
\* follow it holds a try, a catch or an error check; a check on the third
\* following line suppresses the issue.
C26_ErrorCheckWindow ==
    Scanned =>
        \A i \in 1..Len(lines) :
            RiskyCall(lines[i]) =>
                ReportedAt("missing_error_handling", i)
                    = (IF CheckedAfter(lines, i) THEN 0 ELSE 1)

\* variable tokens written in lower camel case or snake case: they match
\* ^\$[a-z][A-Za-z0-9_]*$
LowerVars == Vars \ (SuperGlobalVars \cup {"$_REQUEST", "$Total"})

\* the variable tokens of a line that are neither reserved super-globals nor
\* lower-case names
BadVarTokens(line) ==
    {p \in 1..Len(line) :
        IsVar(line[p]) /\ line[p] \notin SuperGlobalVars
        /\ line[p] \notin LowerVars}

\* C27: on a line that declares no class and no function, the
\* naming_violation issues are one per variable that is neither a reserved
\* super-global ($_GET, $_POST, $_SESSION, $_COOKIE, $_SERVER, $_FILES,
\* $_ENV, $GLOBALS) nor a lower-case name; a super-global is never reported.
C27_SuperGlobalsExempt ==
    Scanned =>
        \A i \in 1..Len(lines) :
            (ClassName(lines[i]) = "" /\ MethodName(lines[i]) = "") =>
                ReportedAt("naming_violation", i)
                    = Cardinality(BadVarTokens(lines[i]))

\* the function declared on line i has a body: its opening brace is on the
\* declaration line and is closed by a later line of the file
HasClosedBody(ls, i) ==
    Has(ls[i], {"{"}) /\ BodyEnd(ls, i, 0) <= Len(ls)

\* C28: the long-method detector reports no long_method issue for a
\* function that has no body at all or whose own opening brace is never
\* closed.
C28_NoBodyNoLongMethod ==
    Scanned =>
        \A k \in 1..Len(detailed_issues) :
            detailed_issues[k].type = "long_method" =>
                HasClosedBody(lines, detailed_issues[k].line_number)

Severities == {"error", "warning", "info"}

\* C30: every issue of a scan of a file of n lines, whichever pass raised,
\* has a severity of error, warning or info and a line number in 1..n; this
\* holds for the issues that a look-ahead reports on a later line too.
C30_IssuesWellFormed ==
    phase = "scanned" =>
        \A k \in 1..Len(detailed_issues) :
            /\ detailed_issues[k].severity \in Severities
            /\ detailed_issues[k].line_number \in 1..Len(lines)

\* a loop header was scanned whose look-ahead reported the last line of the
\* file, a line after the header
C30_Witness ==
    /\ Scanned /\ Len(lines) > 1
    /\ \E k \in 1..Len(detailed_issues) :
          /\ detailed_issues[k].type \in LookAheadTypes
          /\ detailed_issues[k].line_number = Len(lines)
          /\ LoopHeader(lines[Len(lines) - 1])

\* the keys of smell_type_descriptions
SmellTypeDescriptions ==
    {"clean", "long_method", "large_class", "long_parameter_list",
     "complex_method", "naming_issues", "low_cohesion", "high_coupling",
     "duplicate_code", "security_issues", "logic_errors",
     "error_handling_issues", "performance_issues", "critical_issues",
     "code_quality_issues"}

\* C29: with the rule-based classifier, the label that detect_smells
\* returns is a key of the label-description table.
C29_LabelInVocabulary ==
    (Detected /\ ~(model /\ scaler /\ label_encoder)) =>
        smell_type \in SmellTypeDescriptions

\* the branching keywords of the body of the function of BranchyFile(n)
BodyBranches(decls) ==
    Cardinality({k \in 2..Len(decls) : Has(decls[k], BranchTokens)})

\* C22: the function of a file made of one function whose body holds n if
\* blocks has the recorded complexity 1 + n, so that it is counted in
\* complex_method_count exactly when n > 9.
C22_FunctionComplexity ==
    \A n \in (MaxBranches - 1)..MaxBranches :
        (parse.extracted /\ parse.lines = BranchyFile(n)) =>
            /\ Len(parse.facts.functions) = 1
            /\ parse.facts.functions[1].complexity
                   = 1 + BodyBranches(parse.lines)
            /\ parse.complex_method_count
                   = (IF 1 + n > ComplexMethodComplexity THEN 1 ELSE 0)

====
